---- MODULE Spec2Model ----
(***************************************************************************)
(* Media ingestion / deletion pipeline of the Lighthouse web server:       *)
(* server/utils/imageProcessor.js (processImageForRailway,                 *)
(* processVideoForRailway, deleteRailwayFiles), the Railway bucket client  *)
(* (uploadToRailway, deleteFromRailway, deleteMultipleFromRailway, key     *)
(* builders, sanitizeSlug) and the delete operation of the three storage   *)
(* backends (local filesystem, R2, Railway).                               *)
(*                                                                         *)
(* Every asynchronous function is cut at its awaits: one action is the     *)
(* completion of one awaited I/O call together with the synchronous code   *)
(* that follows it up to the next await.                                   *)
(***************************************************************************)
EXTENDS Integers, Sequences, FiniteSets, TLC

\* ------------------------------------------------------------------ bounds
\* Number of calls (ingestions or deletions) the server runs, one after the
\* other.
NumCalls == 2

\* Number of I/O operations (file reads, decodes, puts, deletes, unlinks) that
\* the disk, the image library and the bucket fail in one run.
MaxFaults == 2

Calls == 1..NumCalls

\* ------------------------------------------------------- program constants
\* r2Client.js:354  .substring(0, 50)
SlugLimit == 50

\* config/railway.js:22-26  Object.entries(VARIANT_SIZES) iterates sm, md, lg
VARIANT_SIZES == <<"sm", "md", "lg">>

\* config/railway.js:29-32 (defaults)
MEDIA_PATHS == [images |-> "images", videos |-> "videos"]

\* ------------------------------------------------------------ strings
\* A JavaScript string is a sequence of one-character strings, except that
\* the fixed pieces of a key template are kept as one token each.
Alnum == {"a","b","c","d","e","f","g","h","i","j","k","l","m","n","o","p","q",
          "r","s","t","u","v","w","x","y","z",
          "0","1","2","3","4","5","6","7","8","9"}

\* The upper-case letters that occur in the file names of the model.
lowerChar(ch) ==
  CASE ch = "A" -> "a" [] ch = "B" -> "b" [] ch = "T" -> "t" [] OTHER -> ch

RECURSIVE toLowerCase(_)
toLowerCase(s) ==
  IF s = <<>> THEN <<>> ELSE <<lowerChar(Head(s))>> \o toLowerCase(Tail(s))

\* .replace(/[^a-z0-9]+/g, '-') : every maximal run of other characters
\* becomes one hyphen.
RECURSIVE replaceNonAlnumRuns(_)
replaceNonAlnumRuns(s) ==
  IF s = <<>> THEN <<>>
  ELSE IF Head(s) \in Alnum THEN <<Head(s)>> \o replaceNonAlnumRuns(Tail(s))
  ELSE IF Tail(s) # <<>> /\ Head(Tail(s)) \notin Alnum
       THEN replaceNonAlnumRuns(Tail(s))
       ELSE <<"-">> \o replaceNonAlnumRuns(Tail(s))

\* .replace(/-+/g, '-')
RECURSIVE collapseHyphens(_)
collapseHyphens(s) ==
  IF s = <<>> THEN <<>>
  ELSE IF Head(s) = "-" /\ Tail(s) # <<>> /\ Head(Tail(s)) = "-"
       THEN collapseHyphens(Tail(s))
       ELSE <<Head(s)>> \o collapseHyphens(Tail(s))

\* .replace(/^-|-$/g, '') : one hyphen at the start and one at the end.
stripEndHyphens(s) ==
  LET a == IF s # <<>> /\ Head(s) = "-" THEN Tail(s) ELSE s
  IN  IF a # <<>> /\ a[Len(a)] = "-" THEN SubSeq(a, 1, Len(a) - 1) ELSE a

substring(s, n) == IF Len(s) <= n THEN s ELSE SubSeq(s, 1, n)

sanitizeSlug(input) ==
  substring(stripEndHyphens(collapseHyphens(replaceNonAlnumRuns(toLowerCase(input)))),
            SlugLimit)

\* `${MEDIA_PATHS.images}/gallery/${sanitizedSlug}-${hash}-${size}.webp`
generateImageKey(slug, hash, size) ==
  <<MEDIA_PATHS.images, "/gallery/">> \o sanitizeSlug(slug) \o <<"-", hash, "-", size, ".webp">>

\* `${MEDIA_PATHS.videos}/gallery/${sanitizedSlug}-${hash}.mp4`
generateVideoKey(slug, hash) ==
  <<MEDIA_PATHS.videos, "/gallery/">> \o sanitizeSlug(slug) \o <<"-", hash, ".mp4">>

\* crypto md5 hex digest, first 8 characters; the file contents of the model
\* are the strings "", "a" and "b".
generateContentHash(buffer) ==
  CASE buffer = ""  -> "d41d8cd9"
    [] buffer = "a" -> "0cc175b9"
    [] buffer = "b" -> "92eb5f0c"

\* ------------------------------------------------------------------ state
VARIABLES
  store,         \* Railway bucket: the set of object keys it holds
  tmpFiles,      \* local upload directory: the temp files that exist
  configValid,   \* validateRailwayConfig() passes (environment of the process)
  op,            \* per call: the function called and its arguments
  pc,            \* per call: the await the call is suspended at
  uploadedKeys,  \* per call: the rollback list
  locals,        \* per call: variants / blurData have been assigned
  err,           \* per call: the error caught by the catch block
  del,           \* per call: the running deleteMultipleFromRailway
  outcome,       \* per call: what the caller received
  obs,           \* per call: what the call asked of the store and the disk
  faults,        \* how many I/O operations have failed so far
  galleryFiles,  \* local backend: the files of the gallery directory
  r2Bucket,      \* R2 backend: the set of object keys the bucket holds
  r2EnvSet,      \* the R2_* environment variables are all set
  galleryItems,  \* database: the rows of the table gallery_items
  storageType,   \* the STORAGE_TYPE environment variable
  db,            \* database.js: the sql.js instance in memory (let db)
  dbFile,        \* the file at DB_PATH
  sessions,      \* express-session: userRole stored in the session of each user
  now            \* the clock of the server, in ticks

vars == <<store, tmpFiles, configValid, op, pc, uploadedKeys,
          locals, err, del, outcome, obs, faults, galleryFiles, r2Bucket, r2EnvSet,
          galleryItems, storageType, db, dbFile, sessions, now>>

\* The state of the two backends that STORAGE_TYPE=railway leaves unused.
backendVars == <<galleryFiles, r2Bucket, r2EnvSet>>

\* The database table and the storage type, which only the routes of
\* routes/gallery.js read.
routeVars == <<galleryItems, storageType>>

\* The tables users and blog_comments in memory and on disk, the sessions and
\* the clock, which only the user, comment and backup routes read.
dbVars == <<db, dbFile, sessions, now>>

\* multer's temp files of call c (file.path, thumbFile.path).
inputPath(c) == <<"uploads", c, "file">>
thumbPath(c) == <<"uploads", c, "thumb">>

\* The empty string / null / undefined: every falsy key.
NoKey == <<>>

\* Faulty variant of UploadName: every upload is stored under the same name,
\* as if the name of the file on the client were used.
UploadName_SameForAll(c) == <<"f", "-", "1">>

\* upload.js: filename = `${randomUUID()}${ext}`; one fresh name per call.
\* UploadName(c) is the name of call c without its extension.
Digit == <<"1", "2", "3", "4", "5">>
UploadName(c) == <<"f", "-", Digit[c]>>

Contents == {"", "a"}

\* Objects left in the bucket by an image ingested before the server started
\* (a gallery_items row names them; each may since have been removed).
OldSlug == <<"o", "l", "d">>
OldKeys == [isNull |-> FALSE,
            key_sm |-> generateImageKey(OldSlug, generateContentHash("b"), "sm"),
            key_md |-> generateImageKey(OldSlug, generateContentHash("b"), "md"),
            key_lg |-> generateImageKey(OldSlug, generateContentHash("b"), "lg"),
            videoKey |-> NoKey]

NullKeys == [isNull |-> TRUE, key_sm |-> NoKey, key_md |-> NoKey, key_lg |-> NoKey]
EmptyKeys == [isNull |-> FALSE, key_sm |-> NoKey, key_md |-> NoKey, key_lg |-> NoKey,
              videoKey |-> NoKey]

NoOp == [kind |-> "none"]
NoDel == [keys |-> <<>>, pending |-> {}, cont |-> "none",
          results |-> [success |-> 0, failed |-> 0, errors |-> <<>>]]
NoOutcome == [status |-> "pending"]
\* What a call has done so far: the number of PutObject and DeleteObject
\* requests it sent, the keys its puts stored, whether a put failed, the
\* entries of its delete batch whose deleteFromRailway has settled, the keys
\* whose delete the bucket failed, the files whose unlink the disk failed and
\* the objects its deletes removed.
NoObs == [puts |-> 0, deletes |-> 0, stored |-> {}, putFailed |-> FALSE, tried |-> {},
          unlinkRefused |-> {}, delRefused |-> {}, removed |-> {}]

\* An I/O operation fails / does not fail.
Fails == faults < MaxFaults /\ faults' = faults + 1
Succeeds == UNCHANGED faults

\* The server runs with STORAGE_TYPE=railway and the table gallery_items is
\* empty.
NoRows ==
  /\ galleryItems = {}
  /\ storageType = "railway"

\* The accounts ever created: the values the AUTOINCREMENT id of users takes.
MaxUsers == 2
UserIds == 1..MaxUsers

\* No statement has reached the database yet: the process has not loaded
\* it, nobody is logged in.
ClosedDb == [open |-> FALSE, users |-> {}, userSeq |-> 0, comments |-> {}]
NoFile == [exists |-> FALSE, users |-> {}, userSeq |-> 0, comments |-> {}]
NoDatabase ==
  /\ db = ClosedDb
  /\ dbFile = NoFile
  /\ sessions = [u \in UserIds |-> "none"]
  /\ now = 0

\* No call has been made yet.
NoCallYet ==
  /\ tmpFiles = {}
  /\ op = [c \in Calls |-> NoOp]
  /\ pc = [c \in Calls |-> "idle"]
  /\ uploadedKeys = [c \in Calls |-> <<>>]
  /\ locals = [c \in Calls |-> [variants |-> FALSE, blurData |-> FALSE]]
  /\ err = [c \in Calls |-> "none"]
  /\ del = [c \in Calls |-> NoDel]
  /\ outcome = [c \in Calls |-> NoOutcome]
  /\ obs = [c \in Calls |-> NoObs]
  /\ faults = 0

\* The server runs with STORAGE_TYPE=railway.
Init ==
  /\ store = {OldKeys.key_sm, OldKeys.key_md, OldKeys.key_lg}
  /\ configValid \in BOOLEAN
  /\ galleryFiles = {}
  /\ r2Bucket = {}
  /\ r2EnvSet = FALSE
  /\ NoRows
  /\ NoDatabase
  /\ NoCallYet

\* ------------------------------------------------- railwayClient.js
\* getRailwayClient(): returns the cached client, or validates the
\* configuration and creates the client; it throws when the configuration is
\* incomplete. railwayConfig is read once from the environment when the module
\* loads, so a client can be had exactly when the configuration is valid.
clientAvailable == configValid

\* The elements of an array.
Range(seq) == {seq[i] : i \in DOMAIN seq}

\* keys.filter(Boolean)
RECURSIVE filterBoolean(_)
filterBoolean(keys) ==
  IF keys = <<>> THEN <<>>
  ELSE IF Head(keys) = NoKey THEN filterBoolean(Tail(keys))
  ELSE <<Head(keys)>> \o filterBoolean(Tail(keys))

ZeroResults == [success |-> 0, failed |-> 0, errors |-> <<>>]

\* The code that runs once the awaited deleteMultipleFromRailway resolved:
\* the catch block goes on to the temp-file cleanup, DELETE /api/gallery/:id
\* to the deletion of the row, deleteRailwayFiles and a direct caller get the
\* results.
DeleteDone(c, cont, results) ==
  IF cont \in {"cleanup", "deleteRecord"}
  THEN /\ pc' = [pc EXCEPT ![c] = cont]
       /\ UNCHANGED outcome
  ELSE /\ pc' = [pc EXCEPT ![c] = "done"]
       /\ outcome' = [outcome EXCEPT ![c] = [status |-> "returned", value |-> results]]

\* deleteMultipleFromRailway(keys), up to its await Promise.all: map() calls
\* deleteFromRailway for every kept key at once; each call obtains the client
\* and sends its DeleteObjectCommand. Without a client every deleteFromRailway
\* throws, which the per-key catch turns into failed++ and an errors entry.
\* o is the obs record of the call as the caller leaves it.
BeginDeleteMultiple(c, keys, cont, o) ==
  LET live == filterBoolean(keys) IN
  IF live = <<>>
  THEN /\ del' = [del EXCEPT ![c] = [NoDel EXCEPT !.cont = cont]]
       /\ obs' = [obs EXCEPT ![c] = o]
       /\ DeleteDone(c, cont, ZeroResults)
  ELSE IF clientAvailable
  THEN /\ del' = [del EXCEPT ![c] = [keys |-> live, pending |-> 1..Len(live),
                                      cont |-> cont, results |-> ZeroResults]]
       /\ obs' = [obs EXCEPT ![c] = [o EXCEPT !.deletes = @ + Len(live)]]
       /\ pc' = [pc EXCEPT ![c] = "deleting"]
       /\ UNCHANGED outcome
  ELSE LET res == [success |-> 0, failed |-> Len(live),
                   errors |-> [i \in 1..Len(live) |->
                                 [key |-> live[i], error |-> "ConfigError"]]]
       IN /\ del' = [del EXCEPT ![c] = [keys |-> live, pending |-> {},
                                         cont |-> cont, results |-> res]]
          /\ obs' = [obs EXCEPT ![c] = [o EXCEPT !.tried = 1..Len(live)]]
          /\ DeleteDone(c, cont, res)

\* What the bucket holds after a DeleteObjectCommand for key succeeded. S3
\* deletes are idempotent: the command succeeds whether or not key existed.
storeAfterDelete(key) == store \ {key}

\* Faulty variant of DeleteResponse: the first deletion that fails ends the batch, the
\* deletions still pending are given up.
DeleteResponse_AbortsOnFailure(c, i) ==
  /\ pc[c] = "deleting"
  /\ i \in del[c].pending
  /\ LET key == del[c].keys[i] IN
     \E deleted \in BOOLEAN :
       LET left == IF deleted THEN del[c].pending \ {i} ELSE {}
           res == IF deleted
                  THEN [del[c].results EXCEPT !.success = @ + 1]
                  ELSE [del[c].results EXCEPT !.failed = @ + 1]
       IN /\ IF deleted THEN Succeeds ELSE Fails
          /\ store' = IF deleted THEN storeAfterDelete(key) ELSE store
          /\ del' = [del EXCEPT ![c].pending = left, ![c].results = res]
          /\ obs' = [obs EXCEPT ![c].tried = @ \cup {i},
                                ![c].delRefused = IF deleted THEN @ ELSE @ \cup {key},
                                ![c].removed = IF deleted THEN @ \cup ({key} \cap store) ELSE @]
          /\ IF left = {}
             THEN DeleteDone(c, del[c].cont, res)
             ELSE UNCHANGED <<pc, outcome>>
  /\ UNCHANGED <<tmpFiles, configValid, dbVars, routeVars, backendVars, op, uploadedKeys, locals, err>>

\* Faulty variant of DeleteResponse: the deletion of a key the bucket does not
\* hold is counted as failed.
DeleteResponse_FalseWhenAbsent(c, i) ==
  /\ pc[c] = "deleting"
  /\ i \in del[c].pending
  /\ LET key == del[c].keys[i]
         left == del[c].pending \ {i}
     IN \E resolved \in BOOLEAN :
          LET deleted == resolved /\ key \in store
              res == IF deleted
                     THEN [del[c].results EXCEPT !.success = @ + 1]
                     ELSE [del[c].results EXCEPT !.failed = @ + 1]
          IN /\ IF resolved THEN Succeeds ELSE Fails
             /\ store' = IF deleted THEN storeAfterDelete(key) ELSE store
             /\ del' = [del EXCEPT ![c].pending = left, ![c].results = res]
             /\ obs' = [obs EXCEPT ![c].tried = @ \cup {i},
                                   ![c].delRefused = IF resolved THEN @ ELSE @ \cup {key},
                                   ![c].removed = IF deleted THEN @ \cup {key} ELSE @]
             /\ IF left = {}
                THEN DeleteDone(c, del[c].cont, res)
                ELSE UNCHANGED <<pc, outcome>>
  /\ UNCHANGED <<tmpFiles, configValid, dbVars, routeVars, backendVars, op, uploadedKeys, locals, err>>

\* deleteFromRailway(key) settles for entry i of the running batch: send()
\* resolved (returns true, success++) or rejected (caught, returns false,
\* failed++ and nothing pushed to errors). The last one to settle resolves
\* Promise.all.
DeleteResponse(c, i) ==
  /\ pc[c] = "deleting"
  /\ i \in del[c].pending
  /\ LET key == del[c].keys[i]
         left == del[c].pending \ {i}
     IN \E deleted \in BOOLEAN :
          LET res == IF deleted
                     THEN [del[c].results EXCEPT !.success = @ + 1]
                     ELSE [del[c].results EXCEPT !.failed = @ + 1]
          IN /\ IF deleted THEN Succeeds ELSE Fails
             /\ store' = IF deleted THEN storeAfterDelete(key) ELSE store
             /\ del' = [del EXCEPT ![c].pending = left, ![c].results = res]
             /\ obs' = [obs EXCEPT ![c].tried = @ \cup {i},
                                   ![c].delRefused = IF deleted THEN @ ELSE @ \cup {key},
                                   ![c].removed = IF deleted THEN @ \cup ({key} \cap store) ELSE @]
             /\ IF left = {}
                THEN DeleteDone(c, del[c].cont, res)
                ELSE UNCHANGED <<pc, outcome>>
  /\ UNCHANGED <<tmpFiles, configValid, dbVars, routeVars, backendVars, op, uploadedKeys, locals, err>>

\* ------------------------------------------------- imageProcessor.js
\* Faulty variant of RollbackKeys: the rollback misses the first uploaded key.
RollbackKeys_SkipsFirst(c) == Tail(uploadedKeys[c])

\* The rollback list handed to deleteMultipleFromRailway by the catch block.
RollbackKeys(c) == uploadedKeys[c]

\* Faulty variant of Catch: the catch block goes to the temp-file cleanup without
\* rolling the uploaded keys back.
Catch_SkipsRollback(c, e, o) ==
  /\ IF e = "ConfigError" THEN Succeeds ELSE Fails
  /\ err' = [err EXCEPT ![c] = e]
  /\ pc' = [pc EXCEPT ![c] = "cleanup"]
  /\ obs' = [obs EXCEPT ![c] = o]
  /\ UNCHANGED <<del, outcome>>

\* catch (err) of processImageForRailway / processVideoForRailway, up to its
\* first await: with uploaded keys the rollback starts, otherwise the cleanup
\* of the temp files is next. e is the error caught: one an I/O operation
\* failed with, or the one getRailwayClient throws.
Catch(c, e, o) ==
  /\ IF e = "ConfigError" THEN Succeeds ELSE Fails
  /\ err' = [err EXCEPT ![c] = e]
  /\ IF Len(uploadedKeys[c]) > 0
     THEN BeginDeleteMultiple(c, RollbackKeys(c), "cleanup", o)
     ELSE /\ pc' = [pc EXCEPT ![c] = "cleanup"]
          /\ obs' = [obs EXCEPT ![c] = o]
          /\ UNCHANGED <<del, outcome>>

\* Calls are numbered in the order they arrive, and a call arrives when the
\* calls before it have settled and their frames are gone.
CanStart(c) ==
  /\ pc[c] = "idle"
  /\ \A d \in Calls : d < c => pc[d] = "released"

isIngest(c) == op[c].kind \in {"image", "video"}
hasThumb(c) == op[c].kind = "video" /\ op[c].thumbFile

\* const contentHash = generateContentHash(inputBuffer / videoBuffer)
contentHashOf(c) == generateContentHash(op[c].bytes)
\* const slug = sanitizeSlug(path.basename(filename, path.extname(filename)))
slugOf(c) == sanitizeSlug(op[c].filename.base)
\* const thumbHash = generateContentHash(thumbBuffer)
thumbHashOf(c) == generateContentHash(op[c].thumbBytes)
\* const thumbSlug = `${slug}-thumb`
thumbSlugOf(c) == slugOf(c) \o <<"-", "t", "h", "u", "m", "b">>

\* Faulty variant of variantKey: the sizes of an image are taken in the
\* reverse order.
variantKey_ReversedSizes(c, i) ==
  IF op[c].kind = "image"
  THEN generateImageKey(slugOf(c), contentHashOf(c),
                        VARIANT_SIZES[Len(VARIANT_SIZES) + 1 - i])
  ELSE generateImageKey(thumbSlugOf(c), thumbHashOf(c), VARIANT_SIZES[i])

\* The key of the i-th variant the call uploads.
variantKey(c, i) ==
  IF op[c].kind = "image"
  THEN generateImageKey(slugOf(c), contentHashOf(c), VARIANT_SIZES[i])
  ELSE generateImageKey(thumbSlugOf(c), thumbHashOf(c), VARIANT_SIZES[i])

\* How many variants the upload loop has put so far.
variantsPut(c) ==
  IF op[c].kind = "image" THEN Len(uploadedKeys[c]) ELSE Len(uploadedKeys[c]) - 1

\* The value processImageForRailway returns.
imageResult(c) ==
  [filename |-> op[c].filename,
   keys |-> [key_sm |-> uploadedKeys[c][1], key_md |-> uploadedKeys[c][2],
             key_lg |-> uploadedKeys[c][3]],
   contentHash |-> contentHashOf(c)]

\* The value processVideoForRailway returns.
videoResult(c) ==
  [filename |-> op[c].filename,
   videoKey |-> uploadedKeys[c][1],
   thumbnailKeys |-> IF hasThumb(c)
                     THEN [isNull |-> FALSE, key_sm |-> uploadedKeys[c][2],
                           key_md |-> uploadedKeys[c][3], key_lg |-> uploadedKeys[c][4]]
                     ELSE NullKeys,
   contentHash |-> contentHashOf(c)]

\* POST /api/gallery hands an uploaded image to processImageForRailway.
StartImage(c, name) ==
  /\ CanStart(c)
  /\ \E b \in Contents :
       op' = [op EXCEPT ![c] = [kind |-> "image", bytes |-> b,
                                filename |-> [base |-> name, ext |-> ".jpg"]]]
  /\ tmpFiles' = tmpFiles \cup {inputPath(c)}
  /\ pc' = [pc EXCEPT ![c] = "readFile"]
  /\ UNCHANGED <<store, configValid, dbVars, routeVars, backendVars, uploadedKeys, locals, err, del, outcome, obs, faults>>

\* POST /api/gallery hands an uploaded video, with or without a thumbnail
\* file, to processVideoForRailway.
StartVideo(c, name) ==
  /\ CanStart(c)
  /\ \E b \in Contents, t \in BOOLEAN, tb \in Contents :
       /\ t \/ tb = b
       /\ op' = [op EXCEPT ![c] = [kind |-> "video", bytes |-> b,
                                    filename |-> [base |-> name, ext |-> ".mp4"],
                                    thumbFile |-> t, thumbBytes |-> tb]]
       /\ tmpFiles' = tmpFiles \cup {inputPath(c)} \cup (IF t THEN {thumbPath(c)} ELSE {})
  /\ pc' = [pc EXCEPT ![c] = "readFile"]
  /\ UNCHANGED <<store, configValid, dbVars, routeVars, backendVars, uploadedKeys, locals, err, del, outcome, obs, faults>>

\* await fs.promises.readFile(inputPath)
ReadFile(c) ==
  /\ pc[c] = "readFile"
  /\ \/ /\ inputPath(c) \in tmpFiles
        /\ pc' = [pc EXCEPT ![c] = IF op[c].kind = "image" THEN "variants" ELSE "putVideo"]
        /\ UNCHANGED <<err, del, outcome, obs, faults>>
     \/ Catch(c, "ReadError", obs[c])
  /\ UNCHANGED <<store, tmpFiles, configValid, dbVars, routeVars, backendVars, op, uploadedKeys, locals>>

\* await uploadToRailway(videoBuffer, videoKey, contentType); uploadedKeys.push
PutVideo(c) ==
  /\ pc[c] = "putVideo"
  /\ LET key == generateVideoKey(slugOf(c), contentHashOf(c)) IN
     \/ /\ clientAvailable
        /\ store' = store \cup {key}
        /\ uploadedKeys' = [uploadedKeys EXCEPT ![c] = Append(@, key)]
        /\ obs' = [obs EXCEPT ![c].puts = @ + 1, ![c].stored = @ \cup {key}]
        /\ pc' = [pc EXCEPT ![c] = IF hasThumb(c) THEN "readThumb" ELSE "unlink"]
        /\ UNCHANGED <<err, del, outcome, faults>>
     \/ /\ clientAvailable
        /\ Catch(c, "PutError", [obs[c] EXCEPT !.puts = @ + 1, !.putFailed = TRUE])
        /\ UNCHANGED <<store, uploadedKeys>>
     \/ /\ ~clientAvailable
        /\ Catch(c, "ConfigError", [obs[c] EXCEPT !.putFailed = TRUE])
        /\ UNCHANGED <<store, uploadedKeys>>
  /\ UNCHANGED <<tmpFiles, configValid, dbVars, routeVars, backendVars, op, locals>>

\* await fs.promises.readFile(thumbFile.path)
ReadThumb(c) ==
  /\ pc[c] = "readThumb"
  /\ \/ /\ thumbPath(c) \in tmpFiles
        /\ pc' = [pc EXCEPT ![c] = "variants"]
        /\ UNCHANGED <<err, del, outcome, obs, faults>>
     \/ Catch(c, "ReadError", obs[c])
  /\ UNCHANGED <<store, tmpFiles, configValid, dbVars, routeVars, backendVars, op, uploadedKeys, locals>>

\* Faulty variant of GenerateVariants: the upload loop starts as soon as the variants
\* exist, before the blur placeholder is generated.
GenerateVariants_UploadsFirst(c) ==
  /\ pc[c] = "variants"
  /\ locals' = [locals EXCEPT ![c].variants = TRUE]
  /\ pc' = [pc EXCEPT ![c] = "put"]
  /\ UNCHANGED <<store, tmpFiles, configValid, dbVars, routeVars, backendVars, op, uploadedKeys, err, del, outcome, obs, faults>>

\* await generateVariants(buffer): sharp decodes and resizes, or rejects.
GenerateVariants(c) ==
  /\ pc[c] = "variants"
  /\ \/ /\ locals' = [locals EXCEPT ![c].variants = TRUE]
        /\ pc' = [pc EXCEPT ![c] = "blur"]
        /\ UNCHANGED <<err, del, outcome, obs, faults>>
     \/ /\ Catch(c, "DecodeError", obs[c])
        /\ UNCHANGED locals
  /\ UNCHANGED <<store, tmpFiles, configValid, dbVars, routeVars, backendVars, op, uploadedKeys>>

\* await generateBlurPlaceholder(buffer)
GenerateBlur(c) ==
  /\ pc[c] = "blur"
  /\ \/ /\ locals' = [locals EXCEPT ![c].blurData = TRUE]
        /\ pc' = [pc EXCEPT ![c] = "put"]
        /\ UNCHANGED <<err, del, outcome, obs, faults>>
     \/ /\ Catch(c, "DecodeError", obs[c])
        /\ UNCHANGED locals
  /\ UNCHANGED <<store, tmpFiles, configValid, dbVars, routeVars, backendVars, op, uploadedKeys>>

\* Faulty variant of PutVariant: the key is pushed on the rollback list before
\* the upload is awaited, so a failed upload leaves its key on the list.
PutVariant_PushesFirst(c) ==
  /\ pc[c] = "put"
  /\ LET i == variantsPut(c) + 1
         key == variantKey(c, i)
     IN
     \/ /\ clientAvailable
        /\ store' = store \cup {key}
        /\ uploadedKeys' = [uploadedKeys EXCEPT ![c] = Append(@, key)]
        /\ obs' = [obs EXCEPT ![c].puts = @ + 1, ![c].stored = @ \cup {key}]
        /\ pc' = [pc EXCEPT ![c] = IF i < Len(VARIANT_SIZES) THEN "put"
                                   ELSE IF op[c].kind = "image" THEN "unlink"
                                   ELSE "unlinkThumb"]
        /\ UNCHANGED <<err, del, outcome, faults>>
     \/ /\ clientAvailable
        /\ Fails
        /\ err' = [err EXCEPT ![c] = "PutError"]
        /\ uploadedKeys' = [uploadedKeys EXCEPT ![c] = Append(@, key)]
        /\ BeginDeleteMultiple(c, Append(uploadedKeys[c], key), "cleanup",
                               [obs[c] EXCEPT !.puts = @ + 1, !.putFailed = TRUE])
        /\ UNCHANGED store
     \/ /\ ~clientAvailable
        /\ Catch(c, "ConfigError", [obs[c] EXCEPT !.putFailed = TRUE])
        /\ UNCHANGED <<store, uploadedKeys>>
  /\ UNCHANGED <<tmpFiles, configValid, dbVars, routeVars, backendVars, op, locals>>

\* Faulty variant of PutVariant: a failed upload is logged and not rethrown, the loop
\* goes on as after a successful one.
PutVariant_Swallows(c) ==
  /\ pc[c] = "put"
  /\ clientAvailable
  /\ LET i == variantsPut(c) + 1
         key == variantKey(c, i)
     IN /\ \/ /\ store' = store \cup {key}
              /\ obs' = [obs EXCEPT ![c].puts = @ + 1, ![c].stored = @ \cup {key}]
              /\ Succeeds
           \/ /\ UNCHANGED store
              /\ obs' = [obs EXCEPT ![c].puts = @ + 1, ![c].putFailed = TRUE]
              /\ Fails
        /\ uploadedKeys' = [uploadedKeys EXCEPT ![c] = Append(@, key)]
        /\ pc' = [pc EXCEPT ![c] = IF i < Len(VARIANT_SIZES) THEN "put"
                                   ELSE IF op[c].kind = "image" THEN "unlink"
                                   ELSE "unlinkThumb"]
  /\ UNCHANGED <<tmpFiles, configValid, dbVars, routeVars, backendVars, op, locals, err, del, outcome>>

\* One pass of the upload loop:
\*   const key = generateImageKey(slug, hash, size);
\*   await uploadToRailway(variant.buffer, key, 'image/webp');
\*   uploadedKeys.push(key);
\* uploadToRailway rethrows whatever getRailwayClient or send() throws.
PutVariant(c) ==
  /\ pc[c] = "put"
  /\ LET i == variantsPut(c) + 1
         key == variantKey(c, i)
     IN
     \/ /\ clientAvailable
        /\ store' = store \cup {key}
        /\ uploadedKeys' = [uploadedKeys EXCEPT ![c] = Append(@, key)]
        /\ obs' = [obs EXCEPT ![c].puts = @ + 1, ![c].stored = @ \cup {key}]
        /\ pc' = [pc EXCEPT ![c] = IF i < Len(VARIANT_SIZES) THEN "put"
                                   ELSE IF op[c].kind = "image" THEN "unlink"
                                   ELSE "unlinkThumb"]
        /\ UNCHANGED <<err, del, outcome, faults>>
     \/ /\ clientAvailable
        /\ Catch(c, "PutError", [obs[c] EXCEPT !.puts = @ + 1, !.putFailed = TRUE])
        /\ UNCHANGED <<store, uploadedKeys>>
     \/ /\ ~clientAvailable
        /\ Catch(c, "ConfigError", [obs[c] EXCEPT !.putFailed = TRUE])
        /\ UNCHANGED <<store, uploadedKeys>>
  /\ UNCHANGED <<tmpFiles, configValid, dbVars, routeVars, backendVars, op, locals>>

\* await fs.promises.unlink(thumbFile.path), inside the try block.
UnlinkThumb(c) ==
  /\ pc[c] = "unlinkThumb"
  /\ \/ /\ tmpFiles' = tmpFiles \ {thumbPath(c)}
        /\ pc' = [pc EXCEPT ![c] = "unlink"]
        /\ UNCHANGED <<err, del, outcome, obs, faults>>
     \/ /\ Catch(c, "UnlinkError", [obs[c] EXCEPT !.unlinkRefused = @ \cup {thumbPath(c)}])
        /\ UNCHANGED tmpFiles
  /\ UNCHANGED <<store, configValid, dbVars, routeVars, backendVars, op, uploadedKeys, locals>>

\* await fs.promises.unlink(inputPath), the last statement of the try block
\* before the return.
UnlinkInput(c) ==
  /\ pc[c] = "unlink"
  /\ \/ /\ tmpFiles' = tmpFiles \ {inputPath(c)}
        /\ pc' = [pc EXCEPT ![c] = "done"]
        /\ outcome' = [outcome EXCEPT ![c] =
                         [status |-> "returned",
                          value |-> IF op[c].kind = "image" THEN imageResult(c)
                                    ELSE videoResult(c)]]
        /\ UNCHANGED <<err, del, obs, faults>>
     \/ /\ Catch(c, "UnlinkError", [obs[c] EXCEPT !.unlinkRefused = @ \cup {inputPath(c)}])
        /\ UNCHANGED tmpFiles
  /\ UNCHANGED <<store, configValid, dbVars, routeVars, backendVars, op, uploadedKeys, locals>>

\* throw err, the last statement of the catch block.
Rethrow(c) ==
  /\ pc' = [pc EXCEPT ![c] = "done"]
  /\ outcome' = [outcome EXCEPT ![c] = [status |-> "threw", error |-> err[c]]]

\* An fs.promises.unlink inside the catch block rejected: the rejection
\* leaves the catch block in place of err.
CleanupThrows(c) ==
  /\ pc' = [pc EXCEPT ![c] = "done"]
  /\ outcome' = [outcome EXCEPT ![c] = [status |-> "threw", error |-> "CleanupUnlinkError"]]
  /\ Fails

\* After the input file was dealt with in the catch block: the video function
\* goes on to the thumbnail file, when one was given and still exists.
AfterCleanupInput(c) ==
  IF hasThumb(c) /\ thumbPath(c) \in tmpFiles
  THEN pc' = [pc EXCEPT ![c] = "cleanupThumb"] /\ UNCHANGED outcome
  ELSE Rethrow(c)

\* if (fs.existsSync(inputPath)) await fs.promises.unlink(inputPath);
CleanupInput(c) ==
  /\ pc[c] = "cleanup"
  /\ IF inputPath(c) \in tmpFiles
     THEN \/ /\ tmpFiles' = tmpFiles \ {inputPath(c)}
             /\ AfterCleanupInput(c)
             /\ UNCHANGED <<obs, faults>>
          \/ /\ CleanupThrows(c)
             /\ obs' = [obs EXCEPT ![c].unlinkRefused = @ \cup {inputPath(c)}]
             /\ UNCHANGED tmpFiles
     ELSE /\ AfterCleanupInput(c)
          /\ UNCHANGED <<tmpFiles, obs, faults>>
  /\ UNCHANGED <<store, configValid, dbVars, routeVars, backendVars, op, uploadedKeys, locals, err, del>>

\* if (thumbFile && thumbFile.path && fs.existsSync(thumbFile.path))
\*   await fs.promises.unlink(thumbFile.path);
CleanupThumb(c) ==
  /\ pc[c] = "cleanupThumb"
  /\ \/ /\ tmpFiles' = tmpFiles \ {thumbPath(c)}
        /\ Rethrow(c)
        /\ UNCHANGED <<obs, faults>>
     \/ /\ CleanupThrows(c)
        /\ obs' = [obs EXCEPT ![c].unlinkRefused = @ \cup {thumbPath(c)}]
        /\ UNCHANGED tmpFiles
  /\ UNCHANGED <<store, configValid, dbVars, routeVars, backendVars, op, uploadedKeys, locals, err, del>>

\* ---------------------------------------------------- deletion of an asset
\* if (x) keysToDelete.push(x)
pushIf(key) == IF key # NoKey THEN <<key>> ELSE <<>>

\* Faulty variant of keysToDelete: the videoKey of the first argument is not
\* collected.
keysToDelete_OmitsVideoKey(keys, thumbnailKeys) ==
  (IF keys.isNull THEN <<>>
   ELSE pushIf(keys.key_sm) \o pushIf(keys.key_md) \o pushIf(keys.key_lg))
  \o
  (IF thumbnailKeys.isNull THEN <<>>
   ELSE pushIf(thumbnailKeys.key_sm) \o pushIf(thumbnailKeys.key_md)
        \o pushIf(thumbnailKeys.key_lg))

\* The keysToDelete list deleteRailwayFiles collects from its two arguments.
keysToDelete(keys, thumbnailKeys) ==
  (IF keys.isNull THEN <<>>
   ELSE pushIf(keys.key_sm) \o pushIf(keys.key_md) \o pushIf(keys.key_lg)
        \o pushIf(keys.videoKey))
  \o
  (IF thumbnailKeys.isNull THEN <<>>
   ELSE pushIf(thumbnailKeys.key_sm) \o pushIf(thumbnailKeys.key_md)
        \o pushIf(thumbnailKeys.key_lg))

\* The arguments DELETE /api/gallery/:id passes for the row of an asset that
\* call d ingested: the three variant keys of an image, or the video key with
\* the thumb_key_* columns of the row.
rowArgs(d) ==
  IF op[d].kind = "image"
  THEN [keys |-> [isNull |-> FALSE, key_sm |-> outcome[d].value.keys.key_sm,
                  key_md |-> outcome[d].value.keys.key_md,
                  key_lg |-> outcome[d].value.keys.key_lg, videoKey |-> NoKey],
        thumbnailKeys |-> NullKeys]
  ELSE [keys |-> [EmptyKeys EXCEPT !.videoKey = outcome[d].value.videoKey],
        thumbnailKeys |-> [outcome[d].value.thumbnailKeys EXCEPT !.isNull = FALSE]]

\* The argument pairs deleteRailwayFiles is called with: the row of the image
\* ingested earlier, a row without any key, and the rows of the assets the
\* calls of this run have returned.
DeleteArgs ==
  {[keys |-> OldKeys, thumbnailKeys |-> NullKeys],
   [keys |-> EmptyKeys, thumbnailKeys |-> NullKeys]}
  \cup {rowArgs(d) : d \in {x \in Calls : isIngest(x) /\ outcome[x].status = "returned"}}

\* deleteRailwayFiles(keys, thumbnailKeys); held is what the bucket holds of the
\* collected keys when the call is made.
StartDeleteFiles(c) ==
  /\ CanStart(c)
  /\ \E a \in DeleteArgs :
       /\ op' = [op EXCEPT ![c] = [kind |-> "deleteFiles", keys |-> a.keys,
                                    thumbnailKeys |-> a.thumbnailKeys,
                                    held |-> Range(keysToDelete(a.keys, a.thumbnailKeys))
                                               \cap store]]
       /\ LET list == keysToDelete(a.keys, a.thumbnailKeys) IN
          IF Len(list) = 0
          THEN /\ pc' = [pc EXCEPT ![c] = "done"]
               /\ outcome' = [outcome EXCEPT ![c] =
                                [status |-> "returned",
                                 value |-> [success |-> 0, failed |-> 0]]]
               /\ UNCHANGED <<del, obs>>
          ELSE BeginDeleteMultiple(c, list, "return", obs[c])
  /\ UNCHANGED <<store, tmpFiles, configValid, dbVars, routeVars, backendVars, uploadedKeys, locals, err, faults>>

\* The key lists of the direct calls of deleteMultipleFromRailway: lists with
\* empty entries among the keys.
DirectLists == {<<OldKeys.key_sm, NoKey, OldKeys.key_lg>>, <<NoKey, OldKeys.key_md>>}

\* deleteMultipleFromRailway(keys), called directly (railwayClient.deleteMultiple)
StartDeleteMultiple(c) ==
  /\ CanStart(c)
  /\ \E keys \in DirectLists :
       /\ op' = [op EXCEPT ![c] = [kind |-> "deleteMultiple", keys |-> keys]]
       /\ BeginDeleteMultiple(c, keys, "return", obs[c])
  /\ UNCHANGED <<store, tmpFiles, configValid, dbVars, routeVars, backendVars, uploadedKeys, locals, err, faults>>

\* The caller has taken the outcome of a settled call and the frame of the
\* call is dropped. What stays is what the caller keeps: the result of an
\* ingestion, which POST /api/gallery stores as a gallery_items row.
Release(c) ==
  /\ pc[c] = "done"
  /\ pc' = [pc EXCEPT ![c] = "released"]
  /\ uploadedKeys' = [uploadedKeys EXCEPT ![c] = <<>>]
  /\ locals' = [locals EXCEPT ![c] = [variants |-> FALSE, blurData |-> FALSE]]
  /\ err' = [err EXCEPT ![c] = "none"]
  /\ del' = [del EXCEPT ![c] = NoDel]
  /\ obs' = [obs EXCEPT ![c] = NoObs]
  /\ IF isIngest(c) /\ outcome[c].status = "returned"
     THEN UNCHANGED <<op, outcome>>
     ELSE /\ op' = [op EXCEPT ![c] = NoOp]
          /\ outcome' = [outcome EXCEPT ![c] = NoOutcome]
  /\ UNCHANGED <<store, tmpFiles, configValid, dbVars, routeVars, backendVars, faults>>

\* ---------------------------------------------------------- specification
Next ==
  \E c \in Calls :
    \/ StartImage(c, UploadName(c))
    \/ StartVideo(c, UploadName(c))
    \/ StartDeleteFiles(c)
    \/ StartDeleteMultiple(c)
    \/ ReadFile(c)
    \/ PutVideo(c)
    \/ ReadThumb(c)
    \/ GenerateVariants(c)
    \/ GenerateBlur(c)
    \/ PutVariant(c)
    \/ UnlinkThumb(c)
    \/ UnlinkInput(c)
    \/ CleanupInput(c)
    \/ CleanupThumb(c)
    \/ \E i \in del[c].pending : DeleteResponse(c, i)
    \/ Release(c)

Spec == Init /\ [][Next]_vars

\* ------------------------------------- delete(key) of the storage backends
\* The paths and keys the callers pass to delete: one names an object the
\* backend holds when the server starts, the other does not.
GalleryPaths == {<<"/src/assets/images/gallery/", "a.jpg">>,
                 <<"/src/assets/images/gallery/", "b.jpg">>}
R2Keys == {<<"gallery/", "a.jpg">>, <<"gallery/", "b.jpg">>}
RailwayKeys == {OldKeys.key_sm, OldKeys.key_md}

InitBackends ==
  /\ store = {OldKeys.key_sm}
  /\ galleryFiles = {<<"/src/assets/images/gallery/", "a.jpg">>}
  /\ r2Bucket = {<<"gallery/", "a.jpg">>}
  /\ configValid \in BOOLEAN
  /\ r2EnvSet \in BOOLEAN
  /\ NoRows
  /\ NoDatabase
  /\ NoCallYet

\* return value / throw e of a backend delete
ReturnBool(c, value) ==
  /\ pc' = [pc EXCEPT ![c] = "done"]
  /\ outcome' = [outcome EXCEPT ![c] = [status |-> "returned", value |-> value]]
Throw(c, e) ==
  /\ pc' = [pc EXCEPT ![c] = "done"]
  /\ outcome' = [outcome EXCEPT ![c] = [status |-> "threw", error |-> e]]

\* localStorage.delete(filepath), up to its await:
\*   if (fs.existsSync(fsPath)) { await fs.promises.unlink(fsPath); return true; }
\*   return false;
localStorageDelete(c) ==
  /\ pc[c] = "idle"
  /\ \E filepath \in GalleryPaths :
       /\ op' = [op EXCEPT ![c] = [kind |-> "localDelete", key |-> filepath,
                                    existed |-> filepath \in galleryFiles]]
       /\ IF filepath \in galleryFiles
          THEN pc' = [pc EXCEPT ![c] = "fsUnlink"] /\ UNCHANGED outcome
          ELSE ReturnBool(c, FALSE)
  /\ UNCHANGED <<store, tmpFiles, configValid, dbVars, routeVars, backendVars, uploadedKeys, locals, err, del,
                 obs, faults>>

\* The awaited fs.promises.unlink(fsPath) settles: the file is removed, or
\* the disk refuses, or the file is gone by now (ENOENT); a rejection leaves
\* delete as it is, nothing catches it.
FsUnlinkSettles(c) ==
  /\ pc[c] = "fsUnlink"
  /\ IF op[c].key \in galleryFiles
     THEN \/ /\ galleryFiles' = galleryFiles \ {op[c].key}
             /\ obs' = [obs EXCEPT ![c].removed = {op[c].key}]
             /\ ReturnBool(c, TRUE)
             /\ Succeeds
          \/ /\ Throw(c, "UnlinkError")
             /\ obs' = [obs EXCEPT ![c].unlinkRefused = {op[c].key}]
             /\ Fails
             /\ UNCHANGED galleryFiles
     ELSE /\ Throw(c, "ENOENT")
          /\ UNCHANGED <<galleryFiles, obs, faults>>
  /\ UNCHANGED <<store, tmpFiles, configValid, dbVars, routeVars, r2Bucket, r2EnvSet, op, uploadedKeys, locals,
                 err, del>>

\* deleteFromR2(key), up to its await: getR2Client() is called outside the
\* try block and throws when an R2_* variable is missing.
deleteFromR2(c) ==
  /\ pc[c] = "idle"
  /\ \E key \in R2Keys :
       op' = [op EXCEPT ![c] = [kind |-> "r2Delete", key |-> key, existed |-> key \in r2Bucket]]
  /\ IF r2EnvSet
     THEN /\ pc' = [pc EXCEPT ![c] = "r2Send"]
          /\ obs' = [obs EXCEPT ![c].deletes = @ + 1]
          /\ UNCHANGED outcome
     ELSE Throw(c, "ConfigError") /\ UNCHANGED obs
  /\ UNCHANGED <<store, tmpFiles, configValid, dbVars, routeVars, backendVars, uploadedKeys, locals, err, del,
                 faults>>

\* await client.send(DeleteObjectCommand) of deleteFromR2 settles: resolved,
\* return true; rejected, the catch returns false. The command resolves
\* whether or not the bucket held the key.
R2SendSettles(c) ==
  /\ pc[c] = "r2Send"
  /\ \/ /\ r2Bucket' = r2Bucket \ {op[c].key}
        /\ obs' = [obs EXCEPT ![c].removed = {op[c].key} \cap r2Bucket]
        /\ ReturnBool(c, TRUE)
        /\ Succeeds
     \/ /\ obs' = [obs EXCEPT ![c].delRefused = {op[c].key}]
        /\ ReturnBool(c, FALSE)
        /\ Fails
        /\ UNCHANGED r2Bucket
  /\ UNCHANGED <<store, tmpFiles, configValid, dbVars, routeVars, galleryFiles, r2EnvSet, op, uploadedKeys,
                 locals, err, del>>

\* deleteFromRailway(key), up to its await: getRailwayClient() is called
\* outside the try block.
deleteFromRailway(c) ==
  /\ pc[c] = "idle"
  /\ \E key \in RailwayKeys :
       op' = [op EXCEPT ![c] = [kind |-> "railwayDelete", key |-> key, existed |-> key \in store]]
  /\ IF clientAvailable
     THEN /\ pc' = [pc EXCEPT ![c] = "railwaySend"]
          /\ obs' = [obs EXCEPT ![c].deletes = @ + 1]
          /\ UNCHANGED outcome
     ELSE Throw(c, "ConfigError") /\ UNCHANGED obs
  /\ UNCHANGED <<store, tmpFiles, configValid, dbVars, routeVars, backendVars, uploadedKeys, locals, err, del,
                 faults>>

\* await client.send(DeleteObjectCommand) of deleteFromRailway settles.
RailwaySendSettles(c) ==
  /\ pc[c] = "railwaySend"
  /\ \/ /\ store' = storeAfterDelete(op[c].key)
        /\ obs' = [obs EXCEPT ![c].removed = {op[c].key} \cap store]
        /\ ReturnBool(c, TRUE)
        /\ Succeeds
     \/ /\ obs' = [obs EXCEPT ![c].delRefused = {op[c].key}]
        /\ ReturnBool(c, FALSE)
        /\ Fails
        /\ UNCHANGED store
  /\ UNCHANGED <<tmpFiles, configValid, dbVars, routeVars, backendVars, op, uploadedKeys, locals, err, del>>

\* Delete calls on the three backends; they run concurrently.
NextBackends ==
  \E c \in Calls :
    \/ localStorageDelete(c)
    \/ FsUnlinkSettles(c)
    \/ deleteFromR2(c)
    \/ R2SendSettles(c)
    \/ deleteFromRailway(c)
    \/ RailwaySendSettles(c)
    \/ Release(c)

SpecBackends == InitBackends /\ [][NextBackends]_vars

\* ------------------------- the functions without effect on bucket or disk
\* Longest tail of a slug input of the model.
MaxTail == 3

\* n times the letter a.
Pad(n) == [i \in 1..n |-> "a"]

\* The characters of the tails: a letter, a hyphen, an upper-case letter and
\* a character outside [a-z0-9].
TailChars == {"a", "-", "B", "."}
Tails == UNION {[1..n -> TailChars] : n \in 0..MaxTail}

\* The strings sanitizeSlug is called with: a tail alone, and a tail after so
\* many letters that the cut at SlugLimit falls before, inside or after the
\* tail.
PadLengths == {0} \cup ((SlugLimit - MaxTail - 1)..(SlugLimit + 1))
SlugInputs == {Pad(n) \o t : n \in PadLengths, t \in Tails}

InitKeys ==
  /\ store = {}
  /\ configValid = TRUE
  /\ galleryFiles = {}
  /\ r2Bucket = {}
  /\ r2EnvSet = FALSE
  /\ NoRows
  /\ NoDatabase
  /\ NoCallYet

\* Call and return of a function that touches neither the bucket nor the
\* disk.
PureCall(c, call, value) ==
  /\ op' = [op EXCEPT ![c] = call]
  /\ pc' = [pc EXCEPT ![c] = "done"]
  /\ outcome' = [outcome EXCEPT ![c] = [status |-> "returned", value |-> value]]
  /\ UNCHANGED <<store, tmpFiles, configValid, dbVars, routeVars, backendVars, uploadedKeys, locals, err, del,
                 obs, faults>>

\* sanitizeSlug(input)
CallSanitizeSlug(c) ==
  /\ CanStart(c)
  /\ \E input \in SlugInputs :
       PureCall(c, [kind |-> "sanitizeSlug", input |-> input], sanitizeSlug(input))

\* The slug arguments of the key builders: names, and strings that sanitize to
\* the empty string.
KeySlugs == {<<>>, <<"-">>, <<".", ".">>, <<"a">>, <<"B", ".", "a">>, <<"a", "-", "b">>}
KeyHashes == {generateContentHash(b) : b \in {"", "a", "b"}}

\* generateImageKey(slug, hash, size)
CallGenerateImageKey(c) ==
  /\ CanStart(c)
  /\ \E slug \in KeySlugs, hash \in KeyHashes, i \in DOMAIN VARIANT_SIZES :
       PureCall(c, [kind |-> "generateImageKey", slug |-> slug, hash |-> hash,
                    size |-> VARIANT_SIZES[i]],
                generateImageKey(slug, hash, VARIANT_SIZES[i]))

\* generateVideoKey(slug, hash)
CallGenerateVideoKey(c) ==
  /\ CanStart(c)
  /\ \E slug \in KeySlugs, hash \in KeyHashes :
       PureCall(c, [kind |-> "generateVideoKey", slug |-> slug, hash |-> hash],
                generateVideoKey(slug, hash))

\* config/railway.js:22-26: the target width of each tier.
VARIANT_WIDTHS == [sm |-> 400, md |-> 800, lg |-> 1600]

\* Faulty variant of sharpResize: the image is always brought to the target
\* width.
sharpResize_Enlarges(sourceWidth, width, withoutEnlargement) == width

\* sharp's resize({ width, withoutEnlargement }): the width of the output. An
\* image narrower than the target is enlarged unless withoutEnlargement is
\* set.
sharpResize(sourceWidth, width, withoutEnlargement) ==
  IF withoutEnlargement /\ sourceWidth < width THEN sourceWidth ELSE width

\* generateVariants(inputBuffer) for an image sourceWidth pixels wide: the
\* width recorded for each tier is the width of the resized image.
generateVariants(sourceWidth) ==
  [size \in DOMAIN VARIANT_WIDTHS |->
     [width |-> sharpResize(sourceWidth, VARIANT_WIDTHS[size], TRUE)]]

\* The widths of the source images: below, at and above each tier.
SourceWidths == {1, 399, 400, 401, 799, 800, 801, 1599, 1600, 1601, 4000}

\* generateVariants(inputBuffer) on a decodable image
CallGenerateVariants(c) ==
  /\ CanStart(c)
  /\ \E w \in SourceWidths :
       PureCall(c, [kind |-> "generateVariants", width |-> w], generateVariants(w))

NextKeys ==
  \E c \in Calls :
    \/ CallSanitizeSlug(c)
    \/ CallGenerateImageKey(c)
    \/ CallGenerateVideoKey(c)
    \/ CallGenerateVariants(c)
    \/ Release(c)

SpecKeys == InitKeys /\ [][NextKeys]_vars

\* ------------------------------------------------------ routes/gallery.js
\* Most files in one upload request of the model.
MaxFiles == 2

\* The kind of the mimetype a client sends with a file: one of IMAGE_TYPES,
\* one of VIDEO_TYPES, or any other.
FileTypes == {"image", "video", "other"}

\* file.originalname, the name of the file on the client; two files of a
\* batch may have the same name.
OriginalNames == {"x.jpg", "y.jpg"}

\* req.files.files: each file with its type and the name the client gave it.
Batches ==
  UNION {[1..n -> [type : FileTypes, originalname : OriginalNames]] : n \in 0..MaxFiles}

\* file.path and file.filename (without extension) of the i-th file of
\* request c: multer stores every file under a fresh name.
uploadPath(c, i) == <<"uploads", Digit[c], Digit[i]>>
uploadFilename(c, i) == UploadName(c) \o <<Digit[i]>>

\* The keys processImageForRailway / processVideoForRailway upload for the
\* i-th file of request c, in the order of the uploads (a video comes without
\* thumbnail file: the requests of the model send no thumbnails).
processedObjects(c, i, type) ==
  LET slug == sanitizeSlug(uploadFilename(c, i))
      hash == generateContentHash("a")
  IN IF type = "image"
     THEN [k \in 1..Len(VARIANT_SIZES) |-> generateImageKey(slug, hash, VARIANT_SIZES[k])]
     ELSE <<generateVideoKey(slug, hash)>>

\* processed.keys / processed.videoKey as GalleryItem.create stores them.
processedKeys(c, i, type) ==
  LET o == processedObjects(c, i, type) IN
  IF type = "image"
  THEN [isNull |-> FALSE, key_sm |-> o[1], key_md |-> o[2], key_lg |-> o[3],
        videoKey |-> NoKey]
  ELSE [isNull |-> FALSE, key_sm |-> NoKey, key_md |-> NoKey, key_lg |-> NoKey,
        videoKey |-> o[1]]

\* localStorage.save returns `/src/assets/images/gallery/${filename}`
savedPath(c, i) == <<"/src/assets/images/gallery/", Digit[c], Digit[i]>>

\* lastInsertRowid of the next INSERT: one more than the largest id.
lastInsertRowid ==
  LET ids == {r.id : r \in galleryItems}
  IN IF ids = {} THEN 1 ELSE (CHOOSE m \in ids : \A k \in ids : k <= m) + 1

\* GalleryItem.isRailwayItem(item)
isRailwayItem(item) ==
  \/ item.keys.key_sm # NoKey \/ item.keys.key_md # NoKey
  \/ item.keys.key_lg # NoKey \/ item.keys.videoKey # NoKey

\* The keys of a video with thumbnail ingested before the server started.
OldVideoKeys ==
  [isNull |-> FALSE, key_sm |-> NoKey, key_md |-> NoKey, key_lg |-> NoKey,
   videoKey |-> generateVideoKey(OldSlug, generateContentHash("b"))]
OldThumbKeys ==
  [isNull |-> FALSE,
   key_sm |-> generateImageKey(OldSlug \o <<"-", "t", "h", "u", "m", "b">>,
                               generateContentHash("a"), "sm"),
   key_md |-> generateImageKey(OldSlug \o <<"-", "t", "h", "u", "m", "b">>,
                               generateContentHash("a"), "md"),
   key_lg |-> generateImageKey(OldSlug \o <<"-", "t", "h", "u", "m", "b">>,
                               generateContentHash("a"), "lg"),
   videoKey |-> NoKey]

\* The rows of the table when the server starts: an image and a video with
\* thumbnail in the Railway bucket, a video with a thumbnail of its own and an
\* image stored by the local backend before the migration, and an embed. Of
\* the columns of a row those that the routes read are kept: key_sm, key_md,
\* key_lg and video_key in keys, thumb_key_* in thumbnailKeys.
OldRows ==
  {[id |-> 1, type |-> "image", keys |-> OldKeys, thumbnailKeys |-> EmptyKeys,
    filepath |-> NoKey, thumbnail |-> NoKey],
   [id |-> 2, type |-> "video", keys |-> EmptyKeys, thumbnailKeys |-> EmptyKeys,
    filepath |-> <<"/src/assets/images/gallery/", "a.mp4">>,
    thumbnail |-> <<"/src/assets/images/gallery/", "a_thumb.jpg">>],
   [id |-> 3, type |-> "embed", keys |-> EmptyKeys, thumbnailKeys |-> EmptyKeys,
    filepath |-> NoKey, thumbnail |-> NoKey],
   [id |-> 4, type |-> "image", keys |-> EmptyKeys, thumbnailKeys |-> EmptyKeys,
    filepath |-> <<"/src/assets/images/gallery/", "a.jpg">>,
    thumbnail |-> <<"/src/assets/images/gallery/", "a.jpg">>],
   [id |-> 5, type |-> "video", keys |-> OldVideoKeys, thumbnailKeys |-> OldThumbKeys,
    filepath |-> NoKey, thumbnail |-> NoKey]}

InitGallery ==
  /\ NoDatabase
  /\ store = {OldKeys.key_sm, OldKeys.key_md, OldKeys.key_lg, OldVideoKeys.videoKey,
              OldThumbKeys.key_sm, OldThumbKeys.key_md, OldThumbKeys.key_lg}
  /\ galleryFiles = {<<"/src/assets/images/gallery/", "a.mp4">>,
                     <<"/src/assets/images/gallery/", "a_thumb.jpg">>,
                     <<"/src/assets/images/gallery/", "a.jpg">>}
  /\ galleryItems = OldRows
  /\ storageType \in {"railway", "local"}
  /\ configValid \in BOOLEAN
  /\ r2Bucket = {}
  /\ r2EnvSet = FALSE
  /\ NoCallYet

\* res.status(code).json({ uploaded, errors }) / res.status(code).json({ error })
Respond(c, code, uploaded, errors) ==
  /\ pc' = [pc EXCEPT ![c] = "done"]
  /\ outcome' = [outcome EXCEPT ![c] = [status |-> "responded", code |-> code,
                                         uploaded |-> uploaded, errors |-> errors]]

\* The status after the loop of POST /api/gallery.
uploadStatus(results, errors) ==
  IF Len(results) = 0 /\ Len(errors) > 0 THEN 500
  ELSE IF Len(errors) > 0 THEN 207
  ELSE 201

\* The handler goes on with file i: it awaits the processing of the file, or
\* leaves the loop and responds. An entry of results is the pair
\* <<item.id, file.originalname>>, an entry of errors the pair
\* <<file.originalname, err.message>>. getFileType gives image or video for
\* every file that passed multer's fileFilter, so the branch of the loop for
\* a file of neither type is never taken.
Continue(c, files, i, results, errors) ==
  /\ locals' = [locals EXCEPT ![c] = [i |-> i, results |-> results, errors |-> errors,
                                       item |-> 0]]
  /\ IF i > Len(files)
     THEN Respond(c, uploadStatus(results, errors),
                  IF Len(results) = 0 /\ Len(errors) > 0 THEN <<>> ELSE results, errors)
     ELSE /\ pc' = [pc EXCEPT ![c] = "process"]
          /\ UNCHANGED outcome

\* errors.push({ file: file.originalname, error: err.message }) of the catch
\* block inside the loop, and the next iteration.
CatchFile(c, message) ==
  Continue(c, op[c].files, locals[c].i + 1, locals[c].results,
           Append(locals[c].errors, <<op[c].files[locals[c].i].originalname, message>>))

\* results.push({ id: item.id, ..., originalName: file.originalname }) and
\* the next iteration.
PushResult(c, id) ==
  Continue(c, op[c].files, locals[c].i + 1,
           Append(locals[c].results, <<id, op[c].files[locals[c].i].originalname>>),
           locals[c].errors)

\* POST /api/gallery, up to the first await of the handler. upload.fields
\* stores the files of the request in the upload directory; when fileFilter
\* refuses the mimetype of one of them, multer gives the request up, removes
\* the files it has stored and passes the error to handleUploadError, which
\* answers 400: the handler does not run. The handler answers 400 to a
\* request without files or with an unknown category.
PostGallery(c) ==
  /\ CanStart(c)
  /\ \E files \in Batches, categoryValid \in BOOLEAN :
       /\ op' = [op EXCEPT ![c] = [kind |-> "postGallery", files |-> files,
                                    categoryValid |-> categoryValid]]
       /\ IF \E i \in DOMAIN files : files[i].type = "other"
          THEN /\ Respond(c, 400, <<>>, <<>>)
               /\ UNCHANGED <<tmpFiles, locals>>
          ELSE /\ tmpFiles' = tmpFiles \cup {uploadPath(c, i) : i \in DOMAIN files}
               /\ IF Len(files) = 0 \/ ~categoryValid
                  THEN /\ Respond(c, 400, <<>>, <<>>)
                       /\ UNCHANGED locals
                  ELSE Continue(c, files, 1, <<>>, <<>>)
  /\ UNCHANGED <<store, configValid, dbVars, routeVars, backendVars, uploadedKeys, err, del, obs,
                 faults>>

\* The awaited processImageForRailway / processVideoForRailway (Railway) or
\* processImage / processVideo (local backend) settles. It returns after it
\* has stored the objects of the file and removed the temp file, or it
\* throws: with an incomplete Railway configuration always, otherwise when
\* an I/O operation failed, and then the temp file and the first object may
\* be left behind.
ProcessSettles(c) ==
  /\ pc[c] = "process"
  /\ LET i == locals[c].i
         objects == Range(processedObjects(c, i, op[c].files[i].type))
         first == {processedObjects(c, i, op[c].files[i].type)[1]}
         useRailway == storageType = "railway"
     IN \/ /\ useRailway => clientAvailable
           /\ Succeeds
           /\ IF useRailway
              THEN store' = store \cup objects /\ UNCHANGED galleryFiles
              ELSE galleryFiles' = galleryFiles \cup {savedPath(c, i)} /\ UNCHANGED store
           /\ tmpFiles' = tmpFiles \ {uploadPath(c, i)}
           /\ pc' = [pc EXCEPT ![c] = "create"]
           /\ UNCHANGED <<locals, outcome>>
        \/ /\ IF useRailway /\ ~clientAvailable
              THEN Succeeds /\ UNCHANGED store
              ELSE /\ Fails
                   /\ \E left \in {{}, first} :
                        store' = IF useRailway THEN store \cup left ELSE store
           /\ \E unlinked \in BOOLEAN :
                tmpFiles' = IF unlinked THEN tmpFiles \ {uploadPath(c, i)} ELSE tmpFiles
           /\ CatchFile(c, "ProcessError")
           /\ UNCHANGED galleryFiles
  /\ UNCHANGED <<configValid, dbVars, galleryItems, storageType, r2Bucket, r2EnvSet, op,
                 uploadedKeys, err, del, obs>>

\* The row GalleryItem.create inserts for the i-th file of request c.
createdRow(c, i) ==
  LET type == op[c].files[i].type
      useRailway == storageType = "railway"
  IN [id |-> lastInsertRowid, type |-> type,
      keys |-> IF useRailway THEN processedKeys(c, i, type) ELSE EmptyKeys,
      thumbnailKeys |-> EmptyKeys,
      filepath |-> IF useRailway THEN NoKey ELSE savedPath(c, i),
      thumbnail |-> IF ~useRailway /\ type = "image" THEN savedPath(c, i) ELSE NoKey]

\* The awaited GalleryItem.create settles: it returns the inserted row, or
\* it returns nothing although the row was inserted, or it throws
\* 'Database insert failed', the row inserted or not. Without an item the
\* Railway branch throws, the legacy branch fails on item.id; both land in
\* the catch block of the loop.
CreateSettles(c) ==
  /\ pc[c] = "create"
  /\ LET row == createdRow(c, locals[c].i) IN
     \/ /\ Succeeds
        /\ galleryItems' = galleryItems \cup {row}
        /\ IF storageType = "railway"
           THEN /\ pc' = [pc EXCEPT ![c] = "urls"]
                /\ locals' = [locals EXCEPT ![c].item = row.id]
                /\ UNCHANGED outcome
           ELSE PushResult(c, row.id)
     \/ /\ Fails
        /\ galleryItems' = galleryItems \cup {row}
        /\ CatchFile(c, IF storageType = "railway" THEN "Database returned null"
                        ELSE "TypeError")
     \/ /\ Fails
        /\ \E inserted \in BOOLEAN :
             galleryItems' = IF inserted THEN galleryItems \cup {row} ELSE galleryItems
        /\ CatchFile(c, "Database insert failed")
  /\ UNCHANGED <<store, tmpFiles, configValid, dbVars, storageType, backendVars, op, uploadedKeys,
                 err, del, obs>>

\* The awaited railwayStorage.getImageUrls / getVideoUrls settles: with the
\* presigned URLs the file is pushed to results, a throw lands in the catch
\* block of the loop.
UrlsSettle(c) ==
  /\ pc[c] = "urls"
  /\ \/ Succeeds /\ PushResult(c, locals[c].item)
     \/ Fails /\ CatchFile(c, "PresignError")
  /\ UNCHANGED <<store, tmpFiles, configValid, dbVars, routeVars, backendVars, op, uploadedKeys,
                 err, del, obs>>

\* The ids DELETE /api/gallery/:id is called with: those of the rows the
\* server starts with and the one the next upload gets.
ItemIds == 1..(Cardinality(OldRows) + 1)

\* The two arguments the handler passes to deleteRailwayFiles for item: the
\* variant keys of an image, or the video key with the thumb_key_* columns.
itemArgs(item) ==
  IF item.type = "image"
  THEN [keys |-> [item.keys EXCEPT !.videoKey = NoKey], thumbnailKeys |-> NullKeys]
  ELSE [keys |-> [EmptyKeys EXCEPT !.videoKey = item.keys.videoKey],
        thumbnailKeys |-> item.thumbnailKeys]

\* DELETE /api/gallery/:id, up to its first await.
DeleteGalleryItem(c) ==
  /\ CanStart(c)
  /\ \E id \in ItemIds :
       op' = [op EXCEPT ![c] = [kind |-> "deleteItem", id |-> id]]
  /\ pc' = [pc EXCEPT ![c] = "findById"]
  /\ UNCHANGED <<store, tmpFiles, configValid, dbVars, routeVars, backendVars, uploadedKeys, locals,
                 err, del, outcome, obs, faults>>

\* The awaited GalleryItem.findById settles: it throws (outer catch, 500), it
\* finds no row (404), or it returns the item, and the handler runs up to its
\* next await: deleteRailwayFiles for an item with Railway keys,
\* deleteProcessedFiles for any other item with a filepath, GalleryItem.delete
\* for an embed and for an item without files.
FindByIdSettles(c) ==
  /\ pc[c] = "findById"
  /\ LET found == {r \in galleryItems : r.id = op[c].id} IN
     \/ /\ Fails
        /\ err' = [err EXCEPT ![c] = "DatabaseError"]
        /\ Respond(c, 500, <<>>, <<>>)
        /\ UNCHANGED <<locals, del, obs>>
     \/ /\ Succeeds
        /\ found = {}
        /\ Respond(c, 404, <<>>, <<>>)
        /\ UNCHANGED <<locals, del, obs, err>>
     \/ /\ Succeeds
        /\ \E item \in found :
             /\ locals' = [locals EXCEPT ![c] = [item |-> item]]
             /\ IF item.type # "embed" /\ isRailwayItem(item)
                THEN LET a == itemArgs(item)
                         list == keysToDelete(a.keys, a.thumbnailKeys)
                     IN IF Len(list) = 0
                        THEN /\ pc' = [pc EXCEPT ![c] = "deleteRecord"]
                             /\ UNCHANGED <<del, obs, outcome>>
                        ELSE BeginDeleteMultiple(c, list, "deleteRecord", obs[c])
                ELSE /\ pc' = [pc EXCEPT ![c] =
                                 IF item.type # "embed" /\ item.filepath # NoKey
                                 THEN "deleteMain" ELSE "deleteRecord"]
                     /\ UNCHANGED <<del, obs, outcome>>
        /\ UNCHANGED err
  /\ UNCHANGED <<store, tmpFiles, configValid, dbVars, routeVars, backendVars, op, uploadedKeys>>

\* Faulty variant of storageDeleteSettles: the error of a delete that throws
\* is not caught before the handler's outer catch, which answers 500.
storageDeleteSettles_Propagates(c, path, next) ==
  \/ /\ storageType = "railway" \/ path \notin galleryFiles
     /\ Succeeds
     /\ pc' = [pc EXCEPT ![c] = next]
     /\ UNCHANGED <<galleryFiles, obs, outcome, err>>
  \/ /\ storageType = "local" /\ path \in galleryFiles
     /\ Succeeds
     /\ galleryFiles' = galleryFiles \ {path}
     /\ obs' = [obs EXCEPT ![c].removed = @ \cup {path}]
     /\ pc' = [pc EXCEPT ![c] = next]
     /\ UNCHANGED <<outcome, err>>
  \/ /\ storageType = "local" /\ path \in galleryFiles
     /\ Fails
     /\ obs' = [obs EXCEPT ![c].unlinkRefused = @ \cup {path}]
     /\ err' = [err EXCEPT ![c] = "UnlinkError"]
     /\ Respond(c, 500, <<>>, <<>>)
     /\ UNCHANGED galleryFiles

\* An awaited storageAdapter.delete(path) of deleteProcessedFiles settles.
\* railwayStorage.delete hands the path to deleteRailwayFiles, which finds no
\* key in it and returns { success: 0, failed: 0 }. localStorage.delete
\* returns false for a file that does not exist, true after the unlink, and
\* throws when the unlink fails: the catch block of deleteProcessedFiles logs
\* the error, the function returns, and the handler goes on to
\* GalleryItem.delete.
storageDeleteSettles(c, path, next) ==
  \/ /\ storageType = "railway" \/ path \notin galleryFiles
     /\ Succeeds
     /\ pc' = [pc EXCEPT ![c] = next]
     /\ UNCHANGED <<galleryFiles, obs, outcome, err>>
  \/ /\ storageType = "local" /\ path \in galleryFiles
     /\ Succeeds
     /\ galleryFiles' = galleryFiles \ {path}
     /\ obs' = [obs EXCEPT ![c].removed = @ \cup {path}]
     /\ pc' = [pc EXCEPT ![c] = next]
     /\ UNCHANGED <<outcome, err>>
  \/ /\ storageType = "local" /\ path \in galleryFiles
     /\ Fails
     /\ obs' = [obs EXCEPT ![c].unlinkRefused = @ \cup {path}]
     /\ pc' = [pc EXCEPT ![c] = "deleteRecord"]
     /\ UNCHANGED <<galleryFiles, outcome, err>>

\* deleteProcessedFiles: await storageAdapter.delete(filepath); the thumbnail
\* is next if there is one and it is not the main file.
DeleteMainSettles(c) ==
  /\ pc[c] = "deleteMain"
  /\ storageDeleteSettles(c, locals[c].item.filepath,
                          IF locals[c].item.thumbnail # NoKey
                             /\ locals[c].item.thumbnail # locals[c].item.filepath
                          THEN "deleteThumb" ELSE "deleteRecord")
  /\ UNCHANGED <<store, tmpFiles, configValid, dbVars, routeVars, r2Bucket, r2EnvSet, op,
                 uploadedKeys, locals, del>>

\* deleteProcessedFiles: await storageAdapter.delete(thumbnail)
DeleteThumbSettles(c) ==
  /\ pc[c] = "deleteThumb"
  /\ storageDeleteSettles(c, locals[c].item.thumbnail, "deleteRecord")
  /\ UNCHANGED <<store, tmpFiles, configValid, dbVars, routeVars, r2Bucket, r2EnvSet, op,
                 uploadedKeys, locals, del>>

\* The awaited GalleryItem.delete(itemId) settles: a statement failed or the
\* row is gone (outer catch, 500), or the row is deleted and the handler
\* answers success.
DeleteRecordSettles(c) ==
  /\ pc[c] = "deleteRecord"
  /\ LET found == {r \in galleryItems : r.id = op[c].id} IN
     \/ /\ Fails
        /\ err' = [err EXCEPT ![c] = "DatabaseError"]
        /\ Respond(c, 500, <<>>, <<>>)
        /\ UNCHANGED galleryItems
     \/ /\ Succeeds
        /\ IF found = {}
           THEN /\ err' = [err EXCEPT ![c] = "Gallery item not found"]
                /\ Respond(c, 500, <<>>, <<>>)
                /\ UNCHANGED galleryItems
           ELSE /\ galleryItems' = galleryItems \ found
                /\ Respond(c, 200, <<>>, <<>>)
                /\ UNCHANGED err
  /\ UNCHANGED <<store, tmpFiles, configValid, dbVars, storageType, backendVars, op, uploadedKeys,
                 locals, del, obs>>

\* The requests to the two routes; a request is handled after the one before
\* it has been answered.
NextGallery ==
  \E c \in Calls :
    \/ PostGallery(c)
    \/ ProcessSettles(c)
    \/ CreateSettles(c)
    \/ UrlsSettle(c)
    \/ DeleteGalleryItem(c)
    \/ FindByIdSettles(c)
    \/ \E i \in del[c].pending : DeleteResponse(c, i)
    \/ DeleteMainSettles(c)
    \/ DeleteThumbSettles(c)
    \/ DeleteRecordSettles(c)
    \/ Release(c)

SpecGallery == InitGallery /\ [][NextGallery]_vars

\* The requests to DELETE /api/gallery/:id alone, on the rows the server
\* starts with.
NextGalleryDelete ==
  \E c \in Calls :
    \/ DeleteGalleryItem(c)
    \/ FindByIdSettles(c)
    \/ \E i \in del[c].pending : DeleteResponse(c, i)
    \/ DeleteMainSettles(c)
    \/ DeleteThumbSettles(c)
    \/ DeleteRecordSettles(c)
    \/ Release(c)

SpecGalleryDelete == InitGallery /\ [][NextGalleryDelete]_vars

\* ------------------------------------- models/database.js, the admin routes
\* A request of this part is handled from its first statement to its response
\* before the next one is taken: with the database loaded every
\* `await db.prepare(...)` awaits a settled promise. A frame holds the request
\* and its response until the client has read it.
Ready(c) == \A d \in Calls : pc[d] = "idle"

Roles == {"admin", "editor"}
Usernames == {"admin", "bob"}

\* The tables of a database, in memory or in the file.
tablesOf(d) == <<d.users, d.userSeq, d.comments>>

\* middleware isAdmin for the session of the browser logged in as user by.
isAdmin(by) == sessions[by] = "admin"

\* res.status(code).json(...) of a user, auth or backup route.
Reply(c, code) ==
  /\ pc' = [pc EXCEPT ![c] = "done"]
  /\ outcome' = [outcome EXCEPT ![c] = [status |-> "responded", code |-> code]]

\* The client has read the response; the frame takes the next request.
Recycle(c) ==
  /\ pc[c] = "done"
  /\ op[c].kind \in {"login", "createUser", "updateUser", "deleteUser", "restore",
                     "comment", "moderate", "listing"}
  /\ pc' = [pc EXCEPT ![c] = "idle"]
  /\ op' = [op EXCEPT ![c] = NoOp]
  /\ outcome' = [outcome EXCEPT ![c] = NoOutcome]
  /\ UNCHANGED <<store, tmpFiles, configValid, dbVars, routeVars, backendVars,
                 uploadedKeys, locals, err, del, obs, faults>>

\* initDatabase(), awaited by the first statement that finds db unset: the
\* file at DB_PATH is loaded when it exists, otherwise the database is new;
\* initializeTables; seedDefaultAdmin inserts the account admin unless a row
\* with that username exists; saveDatabase.
initDatabase ==
  /\ ~db.open
  /\ LET users == IF dbFile.exists THEN dbFile.users ELSE {}
         seq == IF dbFile.exists THEN dbFile.userSeq ELSE 0
         comments == IF dbFile.exists THEN dbFile.comments ELSE {}
         adminExists == \E u \in users : u.username = "admin"
     IN /\ adminExists \/ seq < MaxUsers
        /\ db' = [open |-> TRUE,
                  users |-> IF adminExists THEN users
                            ELSE users \cup {[id |-> seq + 1, username |-> "admin",
                                              role |-> "admin"]},
                  userSeq |-> IF adminExists THEN seq ELSE seq + 1,
                  comments |-> comments]
        /\ dbFile' = [exists |-> TRUE,
                      users |-> IF adminExists THEN users
                                ELSE users \cup {[id |-> seq + 1, username |-> "admin",
                                                  role |-> "admin"]},
                      userSeq |-> IF adminExists THEN seq ELSE seq + 1,
                      comments |-> comments]
  /\ UNCHANGED <<store, tmpFiles, configValid, routeVars, backendVars, op, pc,
                 uploadedKeys, locals, err, del, outcome, obs, faults, sessions, now>>

\* dbWrapper.prepare(sql).run(...): db.run changes the tables in memory and
\* saveDatabase() writes db.export() to DB_PATH.
run(users, userSeq, comments) ==
  /\ db' = [open |-> TRUE, users |-> users, userSeq |-> userSeq, comments |-> comments]
  /\ dbFile' = [exists |-> TRUE, users |-> users, userSeq |-> userSeq,
                comments |-> comments]

\* POST /api/auth/login with the username and the password of account u:
\* findByUsername, updateLastLogin (a statement through run), and the session
\* stores the id and the role the row has now.
PostLogin(c, u) ==
  /\ Ready(c)
  /\ db.open
  /\ op' = [op EXCEPT ![c] = [kind |-> "login", by |-> u]]
  /\ IF \E row \in db.users : row.id = u
     THEN /\ run(db.users, db.userSeq, db.comments)
          /\ sessions' = [sessions EXCEPT ![u] =
                            (CHOOSE row \in db.users : row.id = u).role]
          /\ Reply(c, 200)
     ELSE /\ Reply(c, 401)
          /\ UNCHANGED <<db, dbFile, sessions>>
  /\ UNCHANGED <<store, tmpFiles, configValid, routeVars, backendVars,
                 uploadedKeys, locals, err, del, obs, faults, now>>

\* POST /api/users by the session of user by: the username is taken (409) or
\* User.create inserts the row with must_change_password.
PostUsers(c, by) ==
  /\ Ready(c)
  /\ db.open
  /\ isAdmin(by)
  /\ \E username \in Usernames, role \in Roles :
       /\ op' = [op EXCEPT ![c] = [kind |-> "createUser", by |-> by,
                                    username |-> username, role |-> role]]
       /\ IF \E row \in db.users : row.username = username
          THEN /\ Reply(c, 409)
               /\ UNCHANGED <<db, dbFile>>
          ELSE /\ db.userSeq < MaxUsers
               /\ run(db.users \cup {[id |-> db.userSeq + 1, username |-> username,
                                      role |-> role]},
                      db.userSeq + 1, db.comments)
               /\ Reply(c, 201)
  /\ UNCHANGED <<store, tmpFiles, configValid, routeVars, backendVars,
                 uploadedKeys, locals, err, del, obs, faults, sessions, now>>

\* User.updateRole(id, role): UPDATE users SET role = ? WHERE id = ?
updateRole(users, id, role) ==
  {IF row.id = id THEN [row EXCEPT !.role = role] ELSE row : row \in users}

\* PUT /api/users/:id with a role, by the session of user by: 404 without the
\* row, 400 when the session's own account would be demoted, otherwise
\* User.updateRole.
PutUser(c, by) ==
  /\ Ready(c)
  /\ db.open
  /\ isAdmin(by)
  /\ \E id \in UserIds, role \in Roles :
       /\ op' = [op EXCEPT ![c] = [kind |-> "updateUser", by |-> by, id |-> id,
                                    role |-> role]]
       /\ IF ~\E row \in db.users : row.id = id
          THEN /\ Reply(c, 404)
               /\ UNCHANGED <<db, dbFile>>
          ELSE IF id = by /\ role # "admin"
          THEN /\ Reply(c, 400)
               /\ UNCHANGED <<db, dbFile>>
          ELSE /\ run(updateRole(db.users, id, role), db.userSeq, db.comments)
               /\ Reply(c, 200)
  /\ UNCHANGED <<store, tmpFiles, configValid, routeVars, backendVars,
                 uploadedKeys, locals, err, del, obs, faults, sessions, now>>

\* SELECT COUNT(*) FROM users WHERE role = 'admin'
adminCount(users) == Cardinality({row \in users : row.role = "admin"})

\* Faulty variant of UserDelete: the last admin is protected only when it is
\* the only account.
UserDelete_CountsAllUsers(users, id, requestingUserId) ==
  IF id = requestingUserId THEN "Cannot delete your own account"
  ELSE IF ~\E row \in users : row.id = id THEN "User not found"
  ELSE IF (CHOOSE row \in users : row.id = id).role = "admin" /\ Cardinality(users) <= 1
  THEN "Cannot delete the last admin user"
  ELSE "deleted"

\* User.delete(id, requestingUserId): the error it throws, or "deleted" when
\* it reaches DELETE FROM users WHERE id = ?.
UserDelete(users, id, requestingUserId) ==
  IF id = requestingUserId THEN "Cannot delete your own account"
  ELSE IF ~\E row \in users : row.id = id THEN "User not found"
  ELSE IF (CHOOSE row \in users : row.id = id).role = "admin" /\ adminCount(users) <= 1
  THEN "Cannot delete the last admin user"
  ELSE "deleted"

\* DELETE /api/users/:id by the session of user by: User.delete, and the
\* status the handler gives to what it throws.
DeleteUser(c, by) ==
  /\ Ready(c)
  /\ db.open
  /\ isAdmin(by)
  /\ \E id \in UserIds :
       /\ op' = [op EXCEPT ![c] = [kind |-> "deleteUser", by |-> by, id |-> id]]
       /\ LET result == UserDelete(db.users, id, by) IN
          IF result = "deleted"
          THEN /\ run({row \in db.users : row.id # id}, db.userSeq, db.comments)
               /\ Reply(c, 200)
          ELSE /\ Reply(c, IF result = "User not found" THEN 404 ELSE 400)
               /\ UNCHANGED <<db, dbFile>>
  /\ UNCHANGED <<store, tmpFiles, configValid, routeVars, backendVars,
                 uploadedKeys, locals, err, del, obs, faults, sessions, now>>

\* The object backups/lighthouse.db of the bucket: a backup taken when the
\* only account was the seeded admin.
BackupFile ==
  [exists |-> TRUE, users |-> {[id |-> 1, username |-> "admin", role |-> "admin"]},
   userSeq |-> 1, comments |-> {}]

\* POST /api/admin/backup/restore by the session of user by. restoreDatabase
\* answers success: false without Railway storage, when GetObject throws or
\* when the body does not start with the SQLite header; otherwise it copies
\* the current file aside and writes the body to DB_PATH. On success the
\* handler destroys the session.
PostRestore(c, by) ==
  /\ Ready(c)
  /\ db.open
  /\ isAdmin(by)
  /\ op' = [op EXCEPT ![c] = [kind |-> "restore", by |-> by]]
  /\ \/ /\ storageType = "railway"
        /\ Succeeds
        /\ dbFile' = BackupFile
        /\ sessions' = [sessions EXCEPT ![by] = "none"]
        /\ Reply(c, 200)
     \/ /\ storageType = "railway"
        /\ Fails
        /\ Reply(c, 500)
        /\ UNCHANGED <<dbFile, sessions>>
     \/ /\ storageType # "railway"
        /\ Succeeds
        /\ Reply(c, 500)
        /\ UNCHANGED <<dbFile, sessions>>
  /\ UNCHANGED <<store, tmpFiles, configValid, routeVars, backendVars,
                 uploadedKeys, locals, err, del, obs, db, now>>

\* The database file a server finds when it starts: none, the one a first
\* start left, or one with a second account.
StartFiles ==
  {NoFile, BackupFile,
   [exists |-> TRUE,
    users |-> {[id |-> 1, username |-> "admin", role |-> "admin"],
               [id |-> 2, username |-> "bob", role |-> "admin"]},
    userSeq |-> 2, comments |-> {}]}

InitAdmin ==
  /\ store = {}
  /\ configValid = TRUE
  /\ galleryFiles = {}
  /\ r2Bucket = {}
  /\ r2EnvSet = FALSE
  /\ galleryItems = {}
  /\ storageType \in {"railway", "local"}
  /\ db = ClosedDb
  /\ dbFile \in StartFiles
  /\ sessions = [u \in UserIds |-> "none"]
  /\ now = 0
  /\ NoCallYet

NextAdmin ==
  \/ initDatabase
  \/ \E c \in Calls :
       \/ \E u \in UserIds : PostLogin(c, u)
       \/ \E by \in UserIds : PostUsers(c, by)
       \/ \E by \in UserIds : PutUser(c, by)
       \/ \E by \in UserIds : DeleteUser(c, by)
       \/ \E by \in UserIds : PostRestore(c, by)
       \/ Recycle(c)

SpecAdmin == InitAdmin /\ [][NextAdmin]_vars

\* ------------------------------------------------ models/Comment.js
\* The comments ever stored at one time, and the last tick of the clock.
MaxComments == 4
MaxTime == 2

\* max 3 comments per email per hour; one hour is two ticks of the clock.
RateLimit == 3
Hour == 2

\* The one published post, and the slug of no post.
PostSlugs == {"post", "nopost"}
postIdOf(slug) == IF slug = "post" THEN 1 ELSE 0

\* The addresses POST /api/blog/:slug/comments is sent: the same address in
\* lower and in upper case, with a leading blank, and without a dot after
\* the @.
EmailLower == <<"a", "@", "b", ".", "c">>
EmailUpper == <<"A", "@", "b", ".", "c">>
EmailInputs == {EmailLower, EmailUpper, <<" ">> \o EmailLower, <<"a", "@", "b">>}

\* /^[^\s@]+@[^\s@]+\.[^\s@]+$/.test(email)
isValidEmail(email) ==
  \E i, j \in DOMAIN email :
    /\ 1 < i /\ i + 1 < j /\ j < Len(email)
    /\ email[i] = "@"
    /\ email[j] = "."
    /\ \A k \in DOMAIN email : k # i => email[k] \notin {" ", "@"}

\* String.prototype.trim for the blank.
RECURSIVE trimStart(_)
trimStart(s) == IF s # <<>> /\ Head(s) = " " THEN trimStart(Tail(s)) ELSE s
RECURSIVE trimEnd(_)
trimEnd(s) ==
  IF s # <<>> /\ s[Len(s)] = " " THEN trimEnd(SubSeq(s, 1, Len(s) - 1)) ELSE s
trim(s) == trimEnd(trimStart(s))

\* WHERE email = ? of the rate-limit count: the column against the address
\* as it came in the request body (SQLite compares text byte by byte).
matchesEmail(stored, email) == stored = email

\* SELECT COUNT(*) FROM blog_comments
\*  WHERE email = ? AND created_at > datetime('now', '-1 hour')
recentCount(comments, email) ==
  Cardinality({row \in comments :
                 matchesEmail(row.email, email) /\ row.created_at > now - Hour})

\* lastInsertRowid of an INSERT INTO blog_comments.
nextCommentId(comments) ==
  IF comments = {} THEN 1
  ELSE (CHOOSE m \in {row.id : row \in comments} :
          \A row \in comments : row.id <= m) + 1

\* Comment.create({ postId, ..., email, ... }): the error it throws, or
\* "created" when it reaches the INSERT.
CommentCreate(comments, postId, email, fieldsValid) ==
  IF ~fieldsValid THEN "First name must be at least 2 characters"
  ELSE IF ~isValidEmail(email) THEN "Valid email is required"
  ELSE IF recentCount(comments, email) >= RateLimit
  THEN "Too many comments. Please try again later."
  ELSE IF postIdOf("post") # postId THEN "Post not found"
  ELSE "created"

\* POST /api/blog/:slug/comments: a filled honeypot is answered with success
\* and nothing is saved; an unknown slug gives 404; otherwise Comment.create,
\* which stores the address trimmed and in lower case with status pending.
PostComment(c) ==
  /\ Ready(c)
  /\ db.open
  /\ \E slug \in PostSlugs, email \in EmailInputs, fieldsValid \in BOOLEAN,
        honeypot \in BOOLEAN :
       /\ op' = [op EXCEPT ![c] = [kind |-> "comment", email |-> email]]
       /\ IF honeypot
          THEN Reply(c, 200) /\ UNCHANGED <<db, dbFile>>
          ELSE IF postIdOf(slug) = 0
          THEN Reply(c, 404) /\ UNCHANGED <<db, dbFile>>
          ELSE LET result == CommentCreate(db.comments, postIdOf(slug), email, fieldsValid) IN
               IF result = "created"
               THEN /\ Cardinality(db.comments) < MaxComments
                    /\ nextCommentId(db.comments) <= MaxComments
                    /\ run(db.users, db.userSeq,
                           db.comments \cup
                             {[id |-> nextCommentId(db.comments),
                               post_id |-> postIdOf(slug),
                               email |-> toLowerCase(trim(email)),
                               status |-> "pending", created_at |-> now]})
                    /\ Reply(c, 201)
               ELSE /\ Reply(c, IF result = "Post not found" THEN 500 ELSE 400)
                    /\ UNCHANGED <<db, dbFile>>
  /\ UNCHANGED <<store, tmpFiles, configValid, routeVars, backendVars,
                 uploadedKeys, locals, err, del, obs, faults, sessions, now>>

CommentIds == 1..MaxComments

\* UPDATE blog_comments SET status = ? WHERE id IN (ids)
setStatus(comments, ids, status) ==
  {IF row.id \in ids THEN [row EXCEPT !.status = status] ELSE row : row \in comments}

\* The moderation routes: PUT /comments/:id/approve and /reject and
\* DELETE /comments/:id answer 404 without the row (Comment.approve, reject
\* and delete throw 'Comment not found'); POST /comments/bulk runs one
\* statement over the ids it was given.
Moderate(c) ==
  /\ Ready(c)
  /\ db.open
  /\ \E action \in {"approve", "reject", "delete", "bulkApprove", "bulkReject",
                    "bulkDelete"},
        ids \in (SUBSET CommentIds) \ {{}} :
       /\ action \in {"approve", "reject", "delete"} => Cardinality(ids) = 1
       /\ op' = [op EXCEPT ![c] = [kind |-> "moderate", action |-> action, ids |-> ids]]
       /\ IF action \in {"approve", "reject", "delete"}
             /\ ~\E row \in db.comments : row.id \in ids
          THEN Reply(c, 404) /\ UNCHANGED <<db, dbFile>>
          ELSE /\ run(db.users, db.userSeq,
                      CASE action \in {"approve", "bulkApprove"} ->
                             setStatus(db.comments, ids, "approved")
                        [] action \in {"reject", "bulkReject"} ->
                             setStatus(db.comments, ids, "rejected")
                        [] OTHER -> {row \in db.comments : row.id \notin ids})
               /\ Reply(c, 200)
  /\ UNCHANGED <<store, tmpFiles, configValid, routeVars, backendVars,
                 uploadedKeys, locals, err, del, obs, faults, sessions, now>>

\* Faulty variant of findByPostId: the listing leaves out only the rejected
\* comments.
findByPostId_NotRejected(comments, postId) ==
  {row.id : row \in {r \in comments : r.post_id = postId /\ r.status # "rejected"}}

\* Comment.findByPostId(postId) and Comment.findByPostSlug(slug):
\* WHERE post_id = ? AND status = 'approved'. The ids of the rows returned.
findByPostId(comments, postId) ==
  {row.id : row \in {r \in comments : r.post_id = postId /\ r.status = "approved"}}

\* GET /api/blog/:slug/comments
GetComments(c) ==
  /\ Ready(c)
  /\ db.open
  /\ \E slug \in PostSlugs :
       /\ op' = [op EXCEPT ![c] = [kind |-> "listing", slug |-> slug]]
       /\ pc' = [pc EXCEPT ![c] = "done"]
       /\ outcome' = [outcome EXCEPT ![c] =
            [status |-> "responded",
             code |-> IF postIdOf(slug) = 0 THEN 404 ELSE 200,
             comments |-> IF postIdOf(slug) = 0 THEN {}
                          ELSE findByPostId(db.comments, postIdOf(slug))]]
  /\ UNCHANGED <<store, tmpFiles, configValid, routeVars, backendVars,
                 uploadedKeys, locals, err, del, obs, faults, dbVars>>

\* Time passes.
Tick ==
  /\ now < MaxTime
  /\ now' = now + 1
  /\ UNCHANGED <<store, tmpFiles, configValid, routeVars, backendVars, op, pc,
                 uploadedKeys, locals, err, del, outcome, obs, faults, db, dbFile,
                 sessions>>

InitComments ==
  /\ store = {}
  /\ configValid = TRUE
  /\ galleryFiles = {}
  /\ r2Bucket = {}
  /\ r2EnvSet = FALSE
  /\ NoRows
  /\ NoDatabase
  /\ NoCallYet

\* Submissions and the clock.
NextComments ==
  \/ initDatabase
  \/ Tick
  \/ \E c \in Calls : PostComment(c) \/ Recycle(c)

SpecComments == InitComments /\ [][NextComments]_vars

\* Submissions, moderation and the public listing.
NextModeration ==
  \/ initDatabase
  \/ \E c \in Calls : PostComment(c) \/ Moderate(c) \/ GetComments(c) \/ Recycle(c)

SpecModeration == InitComments /\ [][NextModeration]_vars

\* ------------------------------------------ ingestion calls in flight at once
\* processImageForRailway(inputPath, filename), called while other calls are
\* suspended at their awaits. The filename is the call's own or the one the
\* first call was given; the temp file is the call's own.
CallImage(c) ==
  /\ pc[c] = "idle"
  /\ \E name \in {UploadName(c), UploadName(1)}, b \in Contents :
       op' = [op EXCEPT ![c] = [kind |-> "image", bytes |-> b,
                                filename |-> [base |-> name, ext |-> ".jpg"]]]
  /\ tmpFiles' = tmpFiles \cup {inputPath(c)}
  /\ pc' = [pc EXCEPT ![c] = "readFile"]
  /\ UNCHANGED <<store, configValid, dbVars, routeVars, backendVars, uploadedKeys, locals,
                 err, del, outcome, obs, faults>>

NextConcurrent ==
  \E c \in Calls :
    \/ CallImage(c)
    \/ ReadFile(c)
    \/ GenerateVariants(c)
    \/ GenerateBlur(c)
    \/ PutVariant(c)
    \/ UnlinkInput(c)
    \/ CleanupInput(c)
    \/ \E i \in del[c].pending : DeleteResponse(c, i)

SpecConcurrent == Init /\ [][NextConcurrent]_vars

\* ---------------------------- GalleryItem.create, calls in flight at once
\* Most rows of gallery_items when a create call starts.
MaxRows == 3

\* The rows of gallery_items as far as create reads and writes them: the id
\* and the display_order.
StartRows == {{}, {[id |-> 1, display_order |-> 1], [id |-> 2, display_order |-> 2]}}

\* SELECT MAX(display_order) gives null on an empty table, and
\* (maxOrder.max || 0) + 1 is then 1.
nextDisplayOrder(rows) ==
  LET orders == {r.display_order : r \in rows}
  IN IF orders = {} THEN 0 + 1
     ELSE (CHOOSE m \in orders : \A k \in orders : k <= m) + 1

\* The catch block of create: throw new Error(`Database insert failed: ...`)
createThrows(c) ==
  /\ pc' = [pc EXCEPT ![c] = "done"]
  /\ outcome' = [outcome EXCEPT ![c] = [status |-> "threw", error |-> "Database insert failed"]]
  /\ UNCHANGED <<locals, galleryItems>>

\* GalleryItem.create is called and runs up to its first await, that of
\* db.prepare('SELECT MAX(display_order) ...').
CallCreate(c) ==
  /\ pc[c] = "idle"
  /\ Cardinality(galleryItems) < MaxRows
  /\ op' = [op EXCEPT ![c] = [kind |-> "create"]]
  /\ pc' = [pc EXCEPT ![c] = "selectMax"]
  /\ locals' = [locals EXCEPT ![c] = [displayOrder |-> 0, rowid |-> 0]]
  /\ UNCHANGED <<store, tmpFiles, configValid, dbVars, galleryItems, storageType, backendVars,
                 uploadedKeys, err, del, outcome, obs, faults>>

\* The call goes on after the first await: .get() reads the largest
\* display_order, displayOrder is computed from it, and the call stops at
\* the await of db.prepare('INSERT ...').
SelectMaxOrder(c) ==
  /\ pc[c] = "selectMax"
  /\ \/ /\ Succeeds
        /\ locals' = [locals EXCEPT ![c].displayOrder = nextDisplayOrder(galleryItems)]
        /\ pc' = [pc EXCEPT ![c] = "insert"]
        /\ UNCHANGED <<outcome, galleryItems>>
     \/ Fails /\ createThrows(c)
  /\ UNCHANGED <<store, tmpFiles, configValid, dbVars, storageType, backendVars, op,
                 uploadedKeys, err, del, obs>>

\* The call goes on after the second await: .run(...) inserts the row with
\* the display_order computed before the await, and the call stops at the
\* await of findById(result.lastInsertRowid).
InsertItem(c) ==
  /\ pc[c] = "insert"
  /\ \/ /\ Succeeds
        /\ galleryItems' = galleryItems \cup
             {[id |-> lastInsertRowid, display_order |-> locals[c].displayOrder]}
        /\ locals' = [locals EXCEPT ![c].rowid = lastInsertRowid]
        /\ pc' = [pc EXCEPT ![c] = "findById"]
        /\ UNCHANGED outcome
     \/ Fails /\ createThrows(c)
  /\ UNCHANGED <<store, tmpFiles, configValid, dbVars, storageType, backendVars, op,
                 uploadedKeys, err, del, obs>>

\* findById settles and create returns the item.
FindCreated(c) ==
  /\ pc[c] = "findById"
  /\ \/ /\ Succeeds
        /\ pc' = [pc EXCEPT ![c] = "done"]
        /\ outcome' = [outcome EXCEPT ![c] = [status |-> "returned",
                                               value |-> locals[c].rowid]]
        /\ UNCHANGED <<locals, galleryItems>>
     \/ Fails /\ createThrows(c)
  /\ UNCHANGED <<store, tmpFiles, configValid, dbVars, storageType, backendVars, op,
                 uploadedKeys, err, del, obs>>

\* The caller has taken what create returned or threw and may call again.
CreateTaken(c) ==
  /\ pc[c] = "done"
  /\ op[c].kind = "create"
  /\ pc' = [pc EXCEPT ![c] = "idle"]
  /\ op' = [op EXCEPT ![c] = NoOp]
  /\ outcome' = [outcome EXCEPT ![c] = NoOutcome]
  /\ locals' = [locals EXCEPT ![c] = [variants |-> FALSE, blurData |-> FALSE]]
  /\ UNCHANGED <<store, tmpFiles, configValid, dbVars, galleryItems, storageType, backendVars,
                 uploadedKeys, err, del, obs, faults>>

InitCreate ==
  /\ store = {}
  /\ configValid = TRUE
  /\ galleryFiles = {}
  /\ r2Bucket = {}
  /\ r2EnvSet = FALSE
  /\ storageType = "railway"
  /\ galleryItems \in StartRows
  /\ NoDatabase
  /\ NoCallYet

NextCreate ==
  \E c \in Calls :
    \/ CallCreate(c)
    \/ SelectMaxOrder(c)
    \/ InsertItem(c)
    \/ FindCreated(c)
    \/ CreateTaken(c)

SpecCreate == InitCreate /\ [][NextCreate]_vars

\* ===================================================================
\* Claims
\* ===================================================================

\* The call has settled and its caller has not yet dropped it.
Settled(c) == pc[c] = "done"
Threw(c) == Settled(c) /\ outcome[c].status = "threw"
Returned(c) == Settled(c) /\ outcome[c].status = "returned"

\* Every key named in the result of an ingestion.
resultKeys(c) ==
  IF op[c].kind = "image"
  THEN {outcome[c].value.keys.key_sm, outcome[c].value.keys.key_md,
        outcome[c].value.keys.key_lg}
  ELSE {outcome[c].value.videoKey}
       \cup (IF outcome[c].value.thumbnailKeys.isNull THEN {}
             ELSE {outcome[c].value.thumbnailKeys.key_sm,
                   outcome[c].value.thumbnailKeys.key_md,
                   outcome[c].value.thumbnailKeys.key_lg})

\* C1 as stated: after processImageForRailway has thrown because a put
\* failed, the bucket holds none of the keys the call uploaded.
C1_ImageAllOrNothing ==
  \A c \in Calls :
    (Threw(c) /\ op[c].kind = "image" /\ obs[c].putFailed)
      => obs[c].stored \cap store = {}

\* C1 amended: after processImageForRailway has thrown because a put failed,
\* every key the call uploaded has been handed to deleteMultipleFromRailway,
\* every one of these deletes has settled, and the bucket holds none of the
\* uploaded keys except those whose delete the bucket failed.
C1_ImageRollbackBestEffort ==
  \A c \in Calls :
    (Threw(c) /\ op[c].kind = "image" /\ obs[c].putFailed)
      => /\ obs[c].stored \cap store \subseteq obs[c].delRefused
         /\ obs[c].stored # {} => (Range(del[c].keys) = obs[c].stored /\ del[c].pending = {})

\* The second of three puts failed and the first variant was rolled back.
C1_Witness ==
  \E c \in Calls :
    /\ Threw(c) /\ op[c].kind = "image" /\ obs[c].putFailed
    /\ Cardinality(obs[c].stored) = 1
    /\ obs[c].stored \cap store = {}
    /\ del[c].results.success = 1

\* C2: when processImageForRailway or processVideoForRailway returns a
\* result, every key the result names is in the bucket.
C2_ReturnedKeysExist ==
  \A c \in Calls :
    (Returned(c) /\ isIngest(c)) => resultKeys(c) \subseteq store

\* A video with a thumbnail was ingested: the result names four keys.
C2_Witness ==
  \E c \in Calls :
    /\ Returned(c) /\ hasThumb(c)
    /\ Cardinality(resultKeys(c)) = 4
    /\ resultKeys(c) \subseteq store

\* C3 as stated: after processVideoForRailway has thrown, whatever the stage
\* that failed, the bucket holds neither the video key nor a thumbnail key
\* the call uploaded.
C3_VideoAllOrNothing ==
  \A c \in Calls :
    (Threw(c) /\ op[c].kind = "video") => obs[c].stored \cap store = {}

\* C3 amended: after processVideoForRailway has thrown, whatever the stage
\* that failed, the video key and every thumbnail key the call uploaded have
\* been handed to deleteMultipleFromRailway, every one of these deletes has
\* settled, and the bucket holds none of them except those whose delete the
\* bucket failed.
C3_VideoRollbackBestEffort ==
  \A c \in Calls :
    (Threw(c) /\ op[c].kind = "video")
      => /\ obs[c].stored \cap store \subseteq obs[c].delRefused
         /\ obs[c].stored # {} => (Range(del[c].keys) = obs[c].stored /\ del[c].pending = {})

\* The video and two thumbnail variants were uploaded, the third thumbnail
\* put failed, and all three keys were rolled back.
C3_Witness ==
  \E c \in Calls :
    /\ Threw(c) /\ hasThumb(c) /\ err[c] = "PutError"
    /\ Cardinality(obs[c].stored) = 3
    /\ obs[c].stored \cap store = {}

\* The temp files multer wrote for the call.
tempFilesOf(c) == {inputPath(c)} \cup (IF hasThumb(c) THEN {thumbPath(c)} ELSE {})

\* C4: after processImageForRailway or processVideoForRailway has finished,
\* by returning or by throwing, the input temp file and the thumbnail temp
\* file of the call no longer exist on disk. Read in favour of the code: a
\* file whose unlink the disk refused is not counted as a leak.
C4_NoTempFileLeak ==
  \A c \in Calls :
    (Settled(c) /\ isIngest(c))
      => tempFilesOf(c) \cap tmpFiles \subseteq obs[c].unlinkRefused

\* How many keys a call uploads when nothing fails.
expectedUploads(c) ==
  IF op[c].kind = "image" THEN Len(VARIANT_SIZES)
  ELSE IF hasThumb(c) THEN 1 + Len(VARIANT_SIZES) ELSE 1

\* C5: when a put fails after earlier puts of the call succeeded, the call
\* hands the uploaded keys to the rollback, does not return a result, and
\* throws the error of the failed put, not an error of the rollback or of the
\* temp-file cleanup.
C5_TriggeringErrorSurfaced ==
  \A c \in Calls :
    (Settled(c) /\ isIngest(c) /\ obs[c].putFailed /\ obs[c].stored # {})
      => /\ Range(del[c].keys) = obs[c].stored
         /\ outcome[c].status = "threw"
         /\ outcome[c].error = err[c]
         /\ err[c] \in {"PutError", "ConfigError"}

\* C6: a failed temp-file deletion does not change the outcome. When every
\* key of the call was uploaded and the only failures are unlinks, the call
\* returns its result and the uploaded keys stay in the bucket; when a put
\* failed, the caller receives the error of the put.
C6_UnlinkFailureDoesNotChangeOutcome ==
  \A c \in Calls :
    (Settled(c) /\ isIngest(c))
      => /\ (Cardinality(obs[c].stored) = expectedUploads(c) /\ ~obs[c].putFailed)
              => (outcome[c].status = "returned" /\ obs[c].stored \subseteq store)
         /\ obs[c].putFailed
              => (outcome[c].status = "threw" /\ outcome[c].error \in {"PutError", "ConfigError"})

\* C7: in processImageForRailway no PutObject or DeleteObject request, and no
\* attempt at one, precedes the generation of all variants and of the blur
\* placeholder; a call whose generation failed throws without any store call.
C7_NoStoreCallBeforeVariants ==
  \A c \in Calls :
    op[c].kind = "image"
      => /\ (obs[c].puts > 0 \/ obs[c].deletes > 0 \/ obs[c].putFailed \/ obs[c].tried # {})
              => (locals[c].variants /\ locals[c].blurData)
         /\ (Settled(c) /\ err[c] = "DecodeError")
              => /\ outcome[c].status = "threw"
                 /\ obs[c].puts = 0 /\ obs[c].deletes = 0
                 /\ obs[c].stored = {} /\ del[c] = NoDel

\* The variants were generated, the blur placeholder was not, and the call
\* has thrown without a store call.
C7_Witness ==
  \E c \in Calls :
    /\ Threw(c) /\ op[c].kind = "image" /\ err[c] = "DecodeError"
    /\ locals[c].variants /\ ~locals[c].blurData
    /\ obs[c].puts = 0 /\ obs[c].deletes = 0

\* The positions of the non-empty keys of a list.
nonEmpty(keys) == {i \in DOMAIN keys : keys[i] # NoKey}

\* C8: once a deleteMultipleFromRailway has settled, whoever called it, the
\* deleteFromRailway of every key of the batch has been called and has
\* settled, and success + failed is the number of keys of the batch; a direct
\* call never throws, its batch is made of the non-empty keys of its input,
\* and the counts it returns add up to their number.
C8_DeleteMultipleAttemptsAll ==
  \A c \in Calls :
    /\ (del[c].cont # "none" /\ pc[c] # "deleting")
         => /\ obs[c].tried = DOMAIN del[c].keys
            /\ del[c].pending = {}
            /\ del[c].results.success + del[c].results.failed = Len(del[c].keys)
            /\ clientAvailable => obs[c].deletes = Len(del[c].keys)
    /\ op[c].kind = "deleteMultiple"
         => /\ outcome[c].status # "threw"
            /\ Len(del[c].keys) = Cardinality(nonEmpty(op[c].keys))
            /\ Range(del[c].keys) = {op[c].keys[i] : i \in nonEmpty(op[c].keys)}
            /\ Settled(c)
                 => /\ outcome[c].status = "returned"
                    /\ outcome[c].value.success + outcome[c].value.failed
                         = Cardinality(nonEmpty(op[c].keys))

\* A direct call with an empty key among its input has returned: one key was
\* deleted, the deletion of the other failed.
C8_Witness ==
  \E c \in Calls :
    /\ Returned(c) /\ op[c].kind = "deleteMultiple"
    /\ NoKey \in Range(op[c].keys)
    /\ outcome[c].value.success = 1 /\ outcome[c].value.failed = 1
    /\ obs[c].tried = {1, 2}

\* The per-key error list of a deletion result (deleteRailwayFiles returns
\* none when it had no key to delete).
errorsOf(value) == IF "errors" \in DOMAIN value THEN value.errors ELSE <<>>

\* C9: the result of deleteMultipleFromRailway, and of deleteRailwayFiles,
\* holds one {key, error} entry for each key it counts as failed, and the
\* entry names a key whose deletion failed.
C9_FailedKeysReported ==
  \A c \in Calls :
    (Returned(c) /\ op[c].kind \in {"deleteMultiple", "deleteFiles"})
      => /\ outcome[c].value.failed = Len(errorsOf(outcome[c].value))
         /\ obs[c].delRefused
              \subseteq {errorsOf(outcome[c].value)[i].key : i \in DOMAIN errorsOf(outcome[c].value)}

\* The backend the delete call goes to is configured.
configured(c) ==
  CASE op[c].kind = "localDelete" -> TRUE
    [] op[c].kind = "r2Delete" -> r2EnvSet
    [] op[c].kind = "railwayDelete" -> configValid

\* C10: on every configured backend, delete(key) returns true exactly when
\* the call removed an object, and returns false, without throwing, when the
\* key was absent from the store when the call was made.
C10_DeleteReturnsWhetherRemoved ==
  \A c \in Calls :
    (Settled(c) /\ op[c].kind \in {"localDelete", "r2Delete", "railwayDelete"} /\ configured(c))
      => /\ (outcome[c].status = "returned" /\ outcome[c].value) <=> (obs[c].removed # {})
         /\ ~op[c].existed => (outcome[c].status = "returned" /\ ~outcome[c].value)

\* The non-null keys of the two arguments of a deleteRailwayFiles call.
nonNullKeys(c) ==
  ((IF op[c].keys.isNull THEN {}
    ELSE {op[c].keys.key_sm, op[c].keys.key_md, op[c].keys.key_lg, op[c].keys.videoKey})
   \cup
   (IF op[c].thumbnailKeys.isNull THEN {}
    ELSE {op[c].thumbnailKeys.key_sm, op[c].thumbnailKeys.key_md,
          op[c].thumbnailKeys.key_lg}))
  \ {NoKey}

\* C11: deleteRailwayFiles never throws; the batch it hands to
\* deleteMultipleFromRailway holds each non-null key of its two arguments
\* once and no other key; with no non-null key it sends no request to the
\* store and returns zero counts.
C11_DeleteFilesCollectsKeys ==
  \A c \in Calls :
    op[c].kind = "deleteFiles"
      => /\ outcome[c].status # "threw"
         /\ Range(del[c].keys) = nonNullKeys(c)
         /\ Len(del[c].keys) = Cardinality(nonNullKeys(c))
         /\ nonNullKeys(c) = {}
              => /\ Returned(c)
                 /\ obs[c].deletes = 0 /\ obs[c].tried = {}
                 /\ outcome[c].value.success = 0 /\ outcome[c].value.failed = 0

\* The row of a video with a thumbnail was deleted: the batch held the video
\* key and the three thumbnail keys.
C11_Witness ==
  \E c \in Calls :
    /\ Returned(c) /\ op[c].kind = "deleteFiles"
    /\ op[c].keys.videoKey # NoKey
    /\ Cardinality(nonNullKeys(c)) = 4
    /\ Len(del[c].keys) = 4
    /\ outcome[c].value.success = 4

\* C12: a deleteRailwayFiles call on keys that the bucket no longer holds,
\* made with a configured client and with every request answered, counts
\* every key as succeeded and none as failed, and removes nothing from the
\* bucket.
C12_DeleteFilesIdempotent ==
  \A c \in Calls :
    (Returned(c) /\ op[c].kind = "deleteFiles" /\ op[c].held = {}
       /\ clientAvailable /\ obs[c].delRefused = {})
      => /\ outcome[c].value.success = Cardinality(nonNullKeys(c))
         /\ outcome[c].value.failed = 0
         /\ obs[c].removed = {}
         /\ nonNullKeys(c) \cap store = {}

\* The three keys of an image were deleted a second time.
C12_Witness ==
  \E c \in Calls :
    /\ Returned(c) /\ op[c].kind = "deleteFiles" /\ op[c].held = {}
    /\ Cardinality(nonNullKeys(c)) = 3
    /\ outcome[c].value.success = 3 /\ outcome[c].value.failed = 0
    /\ obs[c].removed = {}

\* s matches ^[a-z0-9]+(-[a-z0-9]+)*$
matchesSlugPattern(s) ==
  /\ s # <<>>
  /\ \A i \in DOMAIN s : s[i] \in Alnum \cup {"-"}
  /\ s[1] # "-"
  /\ s[Len(s)] # "-"
  /\ \A i \in 1..(Len(s) - 1) : ~(s[i] = "-" /\ s[i + 1] = "-")

\* C13: for every input, sanitizeSlug(input) is empty or matches
\* ^[a-z0-9]+(-[a-z0-9]+)*$, and is at most 50 characters long.
C13_SlugPattern ==
  \A c \in Calls :
    (Returned(c) /\ op[c].kind = "sanitizeSlug")
      => /\ outcome[c].value = <<>> \/ matchesSlugPattern(outcome[c].value)
         /\ Len(outcome[c].value) <= SlugLimit

\* C14: generateImageKey and generateVideoKey called with a slug that
\* sanitizes to the empty string fail with an error and return no key.
C14_EmptySlugRejected ==
  \A c \in Calls :
    (Settled(c) /\ op[c].kind \in {"generateImageKey", "generateVideoKey"}
       /\ sanitizeSlug(op[c].slug) = <<>>)
      => outcome[c].status = "threw"

\* <imagesPrefix>/gallery/<slug>-<hash>-<size>.webp
imageKeyFormat(slug, hash, size) ==
  <<MEDIA_PATHS.images, "/gallery/">> \o slug \o <<"-", hash, "-", size, ".webp">>

hashOfVideoKey(key) == key[Len(key) - 1]
hashOfImageKey(key) == key[Len(key) - 3]

\* C16: a processVideoForRailway that was given a thumbnail and returns names
\* one video key and three thumbnail keys, and the four keys and the returned
\* contentHash all carry the content hash of the thumbnail bytes.
C16_VideoKeysShareThumbHash ==
  \A c \in Calls :
    (Returned(c) /\ hasThumb(c))
      => LET v == outcome[c].value
             thumbHash == generateContentHash(op[c].thumbBytes)
         IN /\ ~v.thumbnailKeys.isNull
            /\ hashOfVideoKey(v.videoKey) = thumbHash
            /\ hashOfImageKey(v.thumbnailKeys.key_sm) = thumbHash
            /\ hashOfImageKey(v.thumbnailKeys.key_md) = thumbHash
            /\ hashOfImageKey(v.thumbnailKeys.key_lg) = thumbHash
            /\ v.contentHash = thumbHash

min(a, b) == IF a < b THEN a ELSE b

\* C17: for every tier (sm 400, md 800, lg 1600) the width generateVariants
\* reports for the variant is min(source width, tier width).
C17_NoUpscale ==
  \A c \in Calls :
    (Returned(c) /\ op[c].kind = "generateVariants")
      => /\ DOMAIN outcome[c].value = {"sm", "md", "lg"}
         /\ outcome[c].value.sm.width = min(op[c].width, 400)
         /\ outcome[c].value.md.width = min(op[c].width, 800)
         /\ outcome[c].value.lg.width = min(op[c].width, 1600)

\* A source 799 pixels wide: sm is reduced to 400, md and lg keep 799.
C17_Witness ==
  \E c \in Calls :
    /\ Returned(c) /\ op[c].kind = "generateVariants" /\ op[c].width = 799
    /\ outcome[c].value.sm.width = 400
    /\ outcome[c].value.md.width = 799
    /\ outcome[c].value.lg.width = 799

\* The keys an ingestion has uploaded: those on its rollback list and those of
\* the result it returned.
keysUploadedBy(c) ==
  Range(uploadedKeys[c])
    \cup (IF isIngest(c) /\ outcome[c].status = "returned" THEN resultKeys(c) ELSE {})

\* C18: two ingestions of files with the same bytes upload disjoint sets of
\* keys.
C18_SameBytesDistinctKeys ==
  \A c, d \in Calls :
    (c # d /\ isIngest(c) /\ isIngest(d) /\ op[c].bytes = op[d].bytes)
      => keysUploadedBy(c) \cap keysUploadedBy(d) = {}

\* Two images with the same bytes were ingested: the bucket holds the three
\* keys of each.
C18_Witness ==
  \E c, d \in Calls :
    /\ c # d /\ op[c].kind = "image" /\ op[d].kind = "image"
    /\ op[c].bytes = op[d].bytes
    /\ outcome[c].status = "returned" /\ outcome[d].status = "returned"
    /\ Cardinality(resultKeys(c) \cup resultKeys(d)) = 6
    /\ resultKeys(c) \cup resultKeys(d) \subseteq store

\* The entries of seq at the indices in S, in the order of seq.
RECURSIVE pick(_, _, _)
pick(seq, S, i) ==
  IF i > Len(seq) THEN <<>>
  ELSE (IF i \in S THEN <<seq[i]>> ELSE <<>>) \o pick(seq, S, i + 1)

\* C19: when POST /api/gallery has answered a request with files, every
\* file of the batch is in exactly one of the two lists of the response,
\* uploaded or errors, under its original name and in the order of the batch,
\* whatever happened to the other files; the status is 201 when errors is
\* empty, 207 when both lists are non-empty and 500 when nothing was
\* uploaded.
C19_BatchFilesEachInOneList ==
  \A c \in Calls :
    (Settled(c) /\ op[c].kind = "postGallery" /\ Len(op[c].files) > 0 /\ op[c].categoryValid)
      => LET n == Len(op[c].files)
             names == [i \in 1..n |-> op[c].files[i].originalname]
             uploaded == outcome[c].uploaded
             errors == outcome[c].errors
         IN /\ \E U \in SUBSET (1..n) :
                 /\ [k \in DOMAIN uploaded |-> uploaded[k][2]] = pick(names, U, 1)
                 /\ [k \in DOMAIN errors |-> errors[k][1]] = pick(names, (1..n) \ U, 1)
            /\ errors = <<>> => outcome[c].code = 201
            /\ (uploaded # <<>> /\ errors # <<>>) => outcome[c].code = 207
            /\ uploaded = <<>> => outcome[c].code = 500

\* Request c is a DELETE /api/gallery/:id that found its item and has been
\* answered.
DeleteAnswered(c) ==
  /\ Settled(c) /\ op[c].kind = "deleteItem"
  /\ "item" \in DOMAIN locals[c]

\* The deletion of the files of the item of request c did not succeed: the
\* bucket failed a delete or no client could be had, or a delete of the
\* local backend threw.
fileDeletionFailed(c) ==
  del[c].results.failed > 0 \/ obs[c].unlinkRefused # {}

\* C20: when DELETE /api/gallery/:id has found the item and has been
\* answered, the row of the item is no longer in gallery_items and the answer
\* is success, whether the deletion of the stored files succeeded, failed or
\* threw; the row stays only when a statement of the database itself failed.
C20_RecordRemovedWhateverTheFiles ==
  \A c \in Calls :
    (DeleteAnswered(c) /\ err[c] # "DatabaseError")
      => /\ \A r \in galleryItems : r.id # op[c].id
         /\ outcome[c].code = 200

\* The unlink of the video file of the item of the local backend threw; the
\* thumbnail was not tried, the row is gone and the answer is success.
C20_Witness ==
  \E c \in Calls :
    /\ DeleteAnswered(c)
    /\ fileDeletionFailed(c)
    /\ obs[c].unlinkRefused = {locals[c].item.filepath}
    /\ locals[c].item.filepath \in galleryFiles
    /\ \A r \in galleryItems : r.id # op[c].id
    /\ outcome[c].code = 200

\* The keys of the variants of image call c in the order of VARIANT_SIZES.
orderedImageKeys(c) ==
  [i \in 1..Len(VARIANT_SIZES) |->
     generateImageKey(slugOf(c), contentHashOf(c), <<"sm", "md", "lg">>[i])]

\* C21: within one image ingestion the variants are put in the order sm, md,
\* lg, one put at a time, and a key enters the rollback list only when its put
\* has succeeded: in every state the rollback list is the sm, md, lg key
\* sequence cut after the puts that succeeded, its keys are exactly the keys
\* the call has put successfully, and the call has sent at most one put beyond
\* them, the one that failed.
C21_RollbackListIsSuccessfulPuts ==
  \A c \in Calls :
    op[c].kind = "image" =>
      /\ Len(uploadedKeys[c]) <= Len(VARIANT_SIZES)
      /\ uploadedKeys[c] = SubSeq(orderedImageKeys(c), 1, Len(uploadedKeys[c]))
      /\ Range(uploadedKeys[c]) = obs[c].stored
      /\ obs[c].puts \in {Len(uploadedKeys[c]), Len(uploadedKeys[c]) + 1}
      /\ obs[c].puts = Len(uploadedKeys[c]) + 1 => obs[c].putFailed

\* An image ingestion whose sm and md puts succeeded and whose lg put failed:
\* the rollback list holds the sm and md keys only.
C21_Witness ==
  \E c \in Calls :
    /\ op[c].kind = "image"
    /\ Len(uploadedKeys[c]) = 2
    /\ obs[c].puts = 3
    /\ obs[c].putFailed
    /\ obs[c].stored = {orderedImageKeys(c)[1], orderedImageKeys(c)[2]}

\* The handler of call c takes a request of the kind and answers it in this
\* step.
Answers(c, kind) == pc[c] = "idle" /\ pc'[c] = "done" /\ op'[c].kind = kind

\* C22: restoreDatabase replaces the current database. When the restore
\* route answers success, the tables the application reads and writes (those
\* of the sql.js instance) are the tables of the backup; and a later statement
\* through the wrapper adds to the file at DB_PATH only the rows it added in
\* memory, so no row of the database replaced comes back.
C22_RestoreReplacesDatabase ==
  [][\A c \in Calls :
       /\ Answers(c, "restore") /\ outcome'[c].code = 200
            => <<db'.users, db'.userSeq, db'.comments>> = tablesOf(BackupFile)
       /\ ~Answers(c, "restore") /\ dbFile' # dbFile
            => (dbFile'.users \ dbFile.users) \subseteq (db'.users \ db.users)]_vars

\* C23: User.delete never removes the requesting user's own account and never
\* removes the last admin. A delete request whose id is the requester's own,
\* whose id has no row, or whose target is an admin while one admin exists is
\* answered with an error and leaves the users table as it was; and a delete
\* that does change the table removes exactly the target row, which is not
\* the requester's, and leaves an admin when the target was one.
C23_DeleteRefusals ==
  [][\A c \in Calls :
       Answers(c, "deleteUser") =>
         LET id == op'[c].id
             by == op'[c].by
             target == {row \in db.users : row.id = id}
             lastAdmin == /\ \E row \in target : row.role = "admin"
                          /\ Cardinality({row \in db.users : row.role = "admin"}) = 1
         IN /\ (id = by \/ target = {} \/ lastAdmin)
                 => /\ outcome'[c].code \in {400, 404}
                    /\ db'.users = db.users
                    /\ dbFile'.users = dbFile.users
            /\ db'.users # db.users
                 => /\ db'.users = db.users \ target
                    /\ id # by
                    /\ (\E row \in target : row.role = "admin")
                         => \E row \in db'.users : row.role = "admin"]_vars

\* A delete request for the only admin, sent by another account whose
\* session still says admin, has been refused and the row is still there.
C23_Witness ==
  \E c \in Calls :
    /\ pc[c] = "done"
    /\ op[c].kind = "deleteUser"
    /\ op[c].id # op[c].by
    /\ outcome[c].code = 400
    /\ \E row \in db.users : row.id = op[c].id /\ row.role = "admin"
    /\ Cardinality({row \in db.users : row.role = "admin"}) = 1

\* C26: at least one user with role admin exists in every reachable state:
\* once the database is loaded and the admin seeded, the user-management
\* requests of logged-in admins, stale sessions included, never leave the
\* users table without an admin.
C26_AdminAlwaysExists ==
  db.open => \E row \in db.users : row.role = "admin"

\* C24: Comment.create accepts at most 3 comments per email address within
\* any one hour, the address taken as it is stored (trimmed, lower case): no
\* hour up to now holds more than RateLimit stored comments of one address.
C24_RateLimitPerAddress ==
  \A row \in db.comments :
    \A t \in 0..now :
      Cardinality({r \in db.comments :
                     /\ r.email = row.email
                     /\ r.created_at > t - Hour
                     /\ r.created_at <= t}) <= 3

\* The status of the comment with the id in the table, "none" without a row.
statusOf(comments, id) ==
  IF \E row \in comments : row.id = id
  THEN (CHOOSE row \in comments : row.id = id).status
  ELSE "none"

\* C25: every comment is created with status pending, only approve and
\* bulkApprove make a comment approved, and the public listing returns no
\* comment whose status is pending or rejected. In every step: a row that
\* appears is pending; a row that becomes approved was named in an approve
\* or bulkApprove request handled in that step; and the comments a listing
\* returns are rows of the post that are approved when it is answered.
C25_OnlyApprovedListed ==
  [][\A c \in Calls :
       /\ \A id \in CommentIds :
            /\ statusOf(db.comments, id) = "none" /\ statusOf(db'.comments, id) # "none"
                 => statusOf(db'.comments, id) = "pending"
            /\ statusOf(db.comments, id) # "approved"
                 /\ statusOf(db'.comments, id) = "approved"
                 => \E d \in Calls :
                      /\ Answers(d, "moderate")
                      /\ op'[d].action \in {"approve", "bulkApprove"}
                      /\ id \in op'[d].ids
       /\ Answers(c, "listing")
            => \A id \in outcome'[c].comments :
                 statusOf(db'.comments, id) = "approved"]_vars

\* A listing has been answered with a comment while the table also holds a
\* pending and a rejected comment of the same post.
C25_Witness ==
  \E c \in Calls :
    /\ pc[c] = "done"
    /\ op[c].kind = "listing"
    /\ outcome[c].comments # {}
    /\ \E p, r \in db.comments :
         p.status = "pending" /\ r.status = "rejected" /\ p.post_id = 1 /\ r.post_id = 1

\* C27: under any interleaving of concurrent ingestion calls the rollback of
\* a failed call deletes only keys that this call itself put, and it never
\* removes from the bucket a key named in the result another call has
\* returned, also when two calls are given the same filename and bytes: the
\* rollback batch of a call holds only keys the call stored, and the keys of
\* every returned result stay in the bucket.
C27_RollbackSparesOtherCalls ==
  \A c \in Calls :
    /\ (isIngest(c) /\ del[c].cont = "cleanup")
         => Range(del[c].keys) \subseteq obs[c].stored
    /\ (Returned(c) /\ isIngest(c))
         => {outcome[c].value.keys.key_sm, outcome[c].value.keys.key_md,
             outcome[c].value.keys.key_lg} \subseteq store


\* The keys the rows of gallery_items name: key_sm, key_md, key_lg and
\* video_key, and the thumb_key_* columns.
referencedKeys ==
  UNION {{r.keys.key_sm, r.keys.key_md, r.keys.key_lg, r.keys.videoKey,
          r.thumbnailKeys.key_sm, r.thumbnailKeys.key_md, r.thumbnailKeys.key_lg} :
         r \in galleryItems} \ {NoKey}

\* C28: POST /api/gallery leaves no unreferenced objects: once the handler
\* has answered, every key in the store that was uploaded for a file of the
\* request is named by a row of gallery_items.
C28_NoUnreferencedObjects ==
  \A c \in Calls :
    (pc[c] = "done" /\ op[c].kind = "postGallery") =>
      \A i \in DOMAIN op[c].files :
        (Range(processedObjects(c, i, op[c].files[i].type)) \cap store) \subseteq referencedKeys


\* C29: sanitizeSlug is idempotent: sanitizing what sanitizeSlug returned, as
\* generateImageKey and generateVideoKey do with the slug they are given,
\* gives the same string again.
C29_SanitizeSlugIdempotent ==
  \A c \in Calls :
    (Returned(c) /\ op[c].kind = "sanitizeSlug")
      => sanitizeSlug(outcome[c].value) = outcome[c].value


\* C30: after any interleaving of create calls no two gallery items share a
\* display_order.
C30_DisplayOrderUnique ==
  \A r1 \in galleryItems, r2 \in galleryItems :
    r1.display_order = r2.display_order => r1.id = r2.id

====
